---- MODULE Spec2Model ----
(***************************************************************************)
(* Schema reconciliation engine of surrealdb-orm (src/orm.ts).             *)
(*                                                                         *)
(* A definition text (a JavaScript string) is modelled as a sequence of    *)
(* tokens.  A token is a TLA+ string: a word, a punctuation mark, or one   *)
(* of the whitespace tokens SP, NL, TAB.  Concatenating the tokens of a    *)
(* text gives the JavaScript string.                                       *)
(***************************************************************************)
EXTENDS Integers, Sequences, FiniteSets, TLC

(***************************************************************************)
(* Text primitives                                                         *)
(***************************************************************************)
SP == " "
NL == "\n"
TAB == "\t"

\* /\s/ of the normalizer's regular expression
IsSpace(t) == t \in {SP, NL, TAB}

\* the words of the token universe that contain an upper-case letter ...
UpperWords ==
  << "DEFINE", "FIELD", "IF", "NOT", "EXISTS", "OVERWRITE", "ON", "TABLE",
     "TYPE", "FLEXIBLE", "REFERENCE", "DELETE", "THEN", "ASSERT", "NONE",
     "DEFAULT", "ALWAYS", "VALUE", "READONLY", "PERMISSIONS", "FULL", "FOR",
     "AND", "IN", "INDEX", "FIELDS", "SEARCH", "ANALYZER", "BM25",
     "HIGHLIGHTS", "UNIQUE", "EVENT", "WHEN", "OR", "THROW", "END",
     "CREATE", "UPDATE", "CASCADE", "REJECT", "IGNORE", "UNSET", "ALTER",
     "SCHEMAFULL", "SCHEMALESS", "COMMENT", "REMOVE", "INFO", "STRUCTURE",
     "Admin", "Users table", "Old", "\"CREATE\"", "\"UPDATE\"", "email != NONE",
     "CREATE log" >>

\* ... and what String.prototype.toLowerCase makes of each
LowerWords ==
  << "define", "field", "if", "not", "exists", "overwrite", "on", "table",
     "type", "flexible", "reference", "delete", "then", "assert", "none",
     "default", "always", "value", "readonly", "permissions", "full", "for",
     "and", "in", "index", "fields", "search", "analyzer", "bm25",
     "highlights", "unique", "event", "when", "or", "throw", "end",
     "create", "update", "cascade", "reject", "ignore", "unset", "alter",
     "schemafull", "schemaless", "comment", "remove", "info", "structure",
     "admin", "users table", "old", "\"create\"", "\"update\"", "email != none",
     "create log" >>

LowerTable ==
  [w \in {UpperWords[i] : i \in DOMAIN UpperWords} |->
     LowerWords[CHOOSE i \in DOMAIN UpperWords : UpperWords[i] = w]]

UpperTable ==
  [w \in {LowerWords[i] : i \in DOMAIN LowerWords} |->
     UpperWords[CHOOSE i \in DOMAIN LowerWords : LowerWords[i] = w]]

\* toLowerCase on one token
Lower(t) == IF t \in DOMAIN LowerTable THEN LowerTable[t] ELSE t

\* toUpperCase on one token (getInfo upper-cases a blanket permission)
Upper(t) == IF t \in DOMAIN UpperTable THEN UpperTable[t] ELSE t

\* s.replace(/\s+/g, " "): every run of whitespace becomes one SP
CollapseSpace(s) ==
  LET kept == SelectSeq([i \in DOMAIN s |-> i],
                        LAMBDA i : ~(IsSpace(s[i]) /\ i > 1 /\ IsSpace(s[i - 1])))
  IN [j \in DOMAIN kept |-> IF IsSpace(s[kept[j]]) THEN SP ELSE s[kept[j]]]

\* String.prototype.trim
RECURSIVE TrimLeft(_)
TrimLeft(s) ==
  IF s # <<>> /\ IsSpace(Head(s)) THEN TrimLeft(Tail(s)) ELSE s

RECURSIVE TrimRight(_)
TrimRight(s) ==
  IF s # <<>> /\ IsSpace(s[Len(s)]) THEN TrimRight(SubSeq(s, 1, Len(s) - 1)) ELSE s

Trim(s) == TrimRight(TrimLeft(s))

\* const normalized = (s) => s.replace(/\s+/g, " ").trim().toLowerCase()
Normalized(s) ==
  LET t == Trim(CollapseSpace(s))
  IN [i \in DOMAIN t |-> Lower(t[i])]

\* is pat a prefix of s from position i
MatchAt(s, pat, i) ==
  /\ i + Len(pat) - 1 <= Len(s)
  /\ \A k \in DOMAIN pat : s[i + k - 1] = pat[k]

\* the least element of a non-empty set of positions
Least(S) == CHOOSE i \in S : \A j \in S : i <= j

\* the positions at which pat occurs in s
Occurrences(s, pat) == {i \in DOMAIN s : MatchAt(s, pat, i)}

\* String.prototype.replace with a string pattern: the FIRST occurrence only
ReplaceFirst(s, pat, rep) ==
  LET occ == Occurrences(s, pat)
  IN IF occ # {}
     THEN SubSeq(s, 1, Least(occ) - 1) \o rep \o SubSeq(s, Least(occ) + Len(pat), Len(s))
     ELSE s

\* Array.prototype.join
RECURSIVE Join(_, _)
Join(parts, sep) ==
  IF parts = <<>> THEN <<>>
  ELSE IF Len(parts) = 1 THEN parts[1]
  ELSE parts[1] \o sep \o Join(Tail(parts), sep)

\* the existence guard of a create statement and its overwrite replacement
IfNotExists == <<"IF", SP, "NOT", SP, "EXISTS", SP>>
OverwriteClause == <<"OVERWRITE", SP>>

(***************************************************************************)
(* Descriptors (FieldConfig, TableConfig).  An optional member that is     *)
(* not given is a record with kind "undef", an empty string where the code *)
(* only tests truthiness, or an empty sequence.                            *)
(***************************************************************************)
\* a JSON value: FieldConfig.default, a constraint argument, a literal
NoVal == [t |-> "undef", s |-> "", n |-> 0, b |-> FALSE, items |-> <<>>]
StrVal(str) == [NoVal EXCEPT !.t = "str", !.s = str]
NumVal(num) == [NoVal EXCEPT !.t = "num", !.n = num]
BoolVal(bool) == [NoVal EXCEPT !.t = "bool", !.b = bool]
ArrVal(vals) == [NoVal EXCEPT !.t = "arr", !.items = vals]

\* JSON.stringify of a scalar
StringifyScalar(v) ==
  CASE v.t = "str" -> <<"\"", v.s, "\"">>
    [] v.t = "num" -> <<ToString(v.n)>>
    [] v.t = "bool" -> <<IF v.b THEN "true" ELSE "false">>
    [] OTHER -> <<>>

\* JSON.stringify (arrays of scalars print without spaces)
JSONStringify(v) ==
  IF v.t = "arr"
  THEN <<"[">> \o Join([i \in DOMAIN v.items |-> StringifyScalar(v.items[i])], <<",">>) \o <<"]">>
  ELSE StringifyScalar(v)

\* permissions?: "FULL" | "NONE" | { select?, create?, update?, delete? }
NoPerm == [k |-> "undef", s |-> "", select |-> "", create |-> "", update |-> "", delete |-> ""]
Blanket(str) == [NoPerm EXCEPT !.k = "blanket", !.s = str]
PermMap(sel, cre, upd, del) ==
  [k |-> "map", s |-> "", select |-> sel, create |-> cre, update |-> upd, delete |-> del]

\* reference?: { onDelete?: "REJECT" | ... | { then: string } }
NoOnDelete == [k |-> "undef", v |-> ""]

\* arrayOf?: "string" | ... | { record } | { type, references } | { object }
NoArrayOf == [k |-> "undef", el |-> "", type |-> "", references |-> "", properties |-> <<>>]

FieldTypes == {"string", "number", "bool", "datetime", "record", "object", "array"}

\* a FieldConfig with only its type given
Field(type) ==
  [ type |-> type, required |-> FALSE, default |-> NoVal, defaultAlways |-> FALSE,
    valueExpr |-> "", readonly |-> FALSE, constraints |-> <<>>, references |-> "",
    onDelete |-> NoOnDelete, comment |-> "", arrayOf |-> NoArrayOf,
    hasProperties |-> FALSE, properties |-> <<>>, flexible |-> FALSE,
    literals |-> <<>>, permissions |-> NoPerm ]

\* a named member of fields / properties (Object.entries order is sequence order)
Entry(name, cfg) == [name |-> name, cfg |-> cfg]

(***************************************************************************)
(* Definition Compiler                                                     *)
(***************************************************************************)
\* the PERMISSIONS clause of DEFINE TABLE (with delete) and DEFINE FIELD (without)
PermissionsClause(p, withDelete) ==
  IF p.k = "undef" THEN <<>>
  ELSE IF p.k = "blanket" /\ p.s \in {"FULL", "NONE"}
       THEN <<SP, "PERMISSIONS", SP, p.s>>
       ELSE <<SP, "PERMISSIONS">>
            \o (IF p.select # "" THEN <<SP, "FOR", SP, "select", SP, p.select>> ELSE <<>>)
            \o (IF p.create # "" THEN <<SP, "FOR", SP, "create", SP, p.create>> ELSE <<>>)
            \o (IF p.update # "" THEN <<SP, "FOR", SP, "update", SP, p.update>> ELSE <<>>)
            \o (IF withDelete /\ p.delete # ""
                THEN <<SP, "FOR", SP, "delete", SP, p.delete>> ELSE <<>>)

\* " TYPE ..." of a field definition
TypeClause(config) ==
  IF config.type \notin FieldTypes THEN <<>>
  ELSE IF config.type = "record" /\ config.references # ""
       THEN <<SP, "TYPE", SP, "record<" \o config.references \o ">">>
  ELSE IF config.type = "array" /\ config.arrayOf.k # "undef"
       THEN IF config.arrayOf.k = "string"
            THEN <<SP, "TYPE", SP, "array<" \o config.arrayOf.el \o ">">>
            ELSE IF config.arrayOf.k = "record" /\ config.arrayOf.el # ""
            THEN <<SP, "TYPE", SP, "array<record<" \o config.arrayOf.el \o ">>">>
            ELSE IF config.arrayOf.type = "record" /\ config.arrayOf.references # ""
            THEN <<SP, "TYPE", SP, "array<record<" \o config.arrayOf.references \o ">>">>
            ELSE IF config.arrayOf.k = "object"
            THEN <<SP, "TYPE", SP, "array<object>">>
            ELSE <<SP, "TYPE", SP, "array">>
  ELSE IF config.type = "object"
       THEN <<SP, "TYPE", SP, "object">> \o (IF config.flexible THEN <<SP, "FLEXIBLE">> ELSE <<>>)
  ELSE <<SP, "TYPE", SP, config.type>>

\* " REFERENCE ON DELETE ..." (record and array<record<..>> fields only)
ReferenceClause(config) ==
  IF \/ (config.type = "record" /\ config.references # "")
     \/ (config.type = "array" /\ config.arrayOf.k = "record" /\ config.arrayOf.el # "")
  THEN IF config.onDelete.k = "str" /\ config.onDelete.v # ""
       THEN <<SP, "REFERENCE", SP, "ON", SP, "DELETE", SP, config.onDelete.v>>
       ELSE IF config.onDelete.k = "then" /\ config.onDelete.v # ""
       THEN <<SP, "REFERENCE", SP, "ON", SP, "DELETE", SP, "THEN", SP, config.onDelete.v>>
       ELSE <<>>
  ELSE <<>>

\* one " ASSERT ..." per entry of FieldConfig.constraints
ConstraintClause(c) ==
  IF c.name = "string::is::email"
  THEN <<SP, "ASSERT", SP, "string::is::email($value)">>
  ELSE IF c.name = "string::len" /\ c.value.t = "arr" /\ Len(c.value.items) = 2
  THEN <<SP, "ASSERT", SP, "string::len($value)", SP, ">=", SP>>
       \o JSONStringify(c.value.items[1])
       \o <<SP, "AND", SP, "string::len($value)", SP, "<=", SP>>
       \o JSONStringify(c.value.items[2])
  ELSE IF c.name = "number::min"
  THEN <<SP, "ASSERT", SP, "$value", SP, ">=", SP>> \o JSONStringify(c.value)
  ELSE IF c.name = "number::max"
  THEN <<SP, "ASSERT", SP, "$value", SP, "<=", SP>> \o JSONStringify(c.value)
  ELSE IF c.value.t = "arr"
  THEN <<SP, "ASSERT", SP, c.name \o "($value,", SP, "[">>
       \o Join([i \in DOMAIN c.value.items |-> JSONStringify(c.value.items[i])], <<",", SP>>)
       \o <<"])">>
  ELSE IF c.value.t = "bool"
  THEN <<SP, "ASSERT", SP, c.name \o "($value)">>
  ELSE <<SP, "ASSERT", SP, c.name \o "($value,", SP>> \o JSONStringify(c.value) \o <<")">>

RECURSIVE ConstraintClauses(_)
ConstraintClauses(cs) ==
  IF cs = <<>> THEN <<>> ELSE ConstraintClause(Head(cs)) \o ConstraintClauses(Tail(cs))

\* " ASSERT $value IN [...]"
LiteralsClause(config) ==
  IF config.literals # <<>>
  THEN <<SP, "ASSERT", SP, "$value", SP, "IN", SP, "[">>
       \o Join([i \in DOMAIN config.literals |-> JSONStringify(config.literals[i])], <<",", SP>>)
       \o <<"]">>
  ELSE <<>>

\* generateFieldSQL appending the default before the required assertion
FieldDefDefaultFirst(tableName, fieldName, config) ==
  <<"DEFINE", SP, "FIELD", SP>> \o IfNotExists
  \o <<fieldName, SP, "ON", SP, "TABLE", SP, tableName>>
  \o TypeClause(config)
  \o ReferenceClause(config)
  \o (IF config.default.t # "undef"
      THEN <<SP, "DEFAULT">> \o (IF config.defaultAlways THEN <<SP, "ALWAYS">> ELSE <<>>)
           \o <<SP>> \o JSONStringify(config.default)
      ELSE <<>>)
  \o (IF config.required /\ config.type \in FieldTypes
      THEN <<SP, "ASSERT", SP, "$value", SP, "!=", SP, "NONE">> ELSE <<>>)
  \o (IF config.valueExpr # "" THEN <<SP, "VALUE", SP, config.valueExpr>> ELSE <<>>)
  \o (IF config.readonly THEN <<SP, "READONLY">> ELSE <<>>)
  \o PermissionsClause(config.permissions, FALSE)
  \o ConstraintClauses(config.constraints)
  \o LiteralsClause(config)
  \o <<";">>

\* fieldDef of generateFieldSQL: the one statement of the field itself
FieldDef(tableName, fieldName, config) ==
  <<"DEFINE", SP, "FIELD", SP>> \o IfNotExists
  \o <<fieldName, SP, "ON", SP, "TABLE", SP, tableName>>
  \o TypeClause(config)
  \o ReferenceClause(config)
  \o (IF config.required /\ config.type \in FieldTypes
      THEN <<SP, "ASSERT", SP, "$value", SP, "!=", SP, "NONE">> ELSE <<>>)
  \o (IF config.default.t # "undef"
      THEN <<SP, "DEFAULT">> \o (IF config.defaultAlways THEN <<SP, "ALWAYS">> ELSE <<>>)
           \o <<SP>> \o JSONStringify(config.default)
      ELSE <<>>)
  \o (IF config.valueExpr # "" THEN <<SP, "VALUE", SP, config.valueExpr>> ELSE <<>>)
  \o (IF config.readonly THEN <<SP, "READONLY">> ELSE <<>>)
  \o PermissionsClause(config.permissions, FALSE)
  \o ConstraintClauses(config.constraints)
  \o LiteralsClause(config)
  \o <<";">>

\* generateFieldSQL: comment line, the field statement, then one
\* generateFieldSQL per nested property, joined by newlines
RECURSIVE generateFieldSQL(_, _, _)
generateFieldSQL(tableName, fieldName, config) ==
  LET head == (IF config.comment # "" THEN << <<"--", SP, config.comment>> >> ELSE <<>>)
              \o << FieldDef(tableName, fieldName, config) >>
      objChildren ==
        IF config.type = "object" /\ config.hasProperties
        THEN [i \in DOMAIN config.properties |->
                generateFieldSQL(tableName, fieldName \o "." \o config.properties[i].name,
                                 config.properties[i].cfg)]
        ELSE <<>>
      arrChildren ==
        IF config.type = "array" /\ config.arrayOf.k = "object"
        THEN [i \in DOMAIN config.arrayOf.properties |->
                generateFieldSQL(tableName, fieldName \o ".*." \o config.arrayOf.properties[i].name,
                                 config.arrayOf.properties[i].cfg)]
        ELSE <<>>
  IN Join(head \o objChildren \o arrChildren, <<NL>>)

\* generateIndexSQL
generateIndexSQL(tableName, index) ==
  LET fieldList == Join([i \in DOMAIN index.fields |-> <<index.fields[i]>>], <<",", SP>>)
      head == <<"DEFINE", SP, "INDEX", SP>> \o IfNotExists
              \o <<index.name, SP, "ON", SP, "TABLE", SP, tableName, SP, "FIELDS", SP>>
              \o fieldList
  IN IF index.hasSearch
     THEN head \o <<SP, "SEARCH", SP, "ANALYZER", SP, index.analyzer>>
          \o (IF index.hasBm25 /\ (index.k1 # "" \/ index.b # "")
              THEN <<SP, "BM25", SP, "(", index.k1, ",", SP, index.b, ")">> ELSE <<>>)
          \o (IF index.highlights THEN <<SP, "HIGHLIGHTS">> ELSE <<>>)
          \o <<";">>
     ELSE head \o (IF index.unique THEN <<SP, "UNIQUE">> ELSE <<>>) \o <<";">>

\* generateConstraintSQL: an EVENT that throws when the predicate is false
generateConstraintSQL(tableName, constraint) ==
  <<"DEFINE", SP, "EVENT", SP>> \o IfNotExists
  \o <<constraint.name, SP, "ON", SP, "TABLE", SP, tableName, SP, "WHEN", SP,
       "$event", SP, "=", SP, "\"CREATE\"", SP, "OR", SP, "$event", SP, "=", SP,
       "\"UPDATE\"", SP, "THEN", SP, "(", NL, TAB, TAB, TAB,
       "IF", SP, "NOT", SP, "(", constraint.expression, ")", SP, "THEN", SP, "THROW", SP,
       "{", SP, "code:", SP, "400,", SP, "message:", SP,
       "\"constraint:" \o constraint.name \o "\"", SP, "}", SP, "END", NL, TAB, TAB,
       ")", ";">>

\* generateTriggerSQL
generateTriggerSQL(tableName, trigger) ==
  <<"DEFINE", SP, "EVENT", SP>> \o IfNotExists
  \o <<trigger.name, SP, "ON", SP, "TABLE", SP, tableName, SP, "WHEN", SP,
       "$event", SP, "=", SP, "\"" \o trigger.event \o "\"", SP, "THEN", SP,
       "(", trigger.expression, ")", ";">>

\* generateCreateTableSQL
generateCreateTableSQL(tableName, config) ==
  LET schemaMode == IF config.schema # "" THEN config.schema ELSE "SCHEMALESS"
      tableDef == <<"DEFINE", SP, "TABLE", SP>> \o IfNotExists \o <<tableName, SP, schemaMode>>
                  \o PermissionsClause(config.permissions, TRUE) \o <<";">>
  IN Join(<<tableDef>>
          \o (IF config.hasComment /\ config.comment # ""
              THEN << <<"--", SP, config.comment>> >> ELSE <<>>)
          \o [i \in DOMAIN config.fields |->
                generateFieldSQL(tableName, config.fields[i].name, config.fields[i].cfg)]
          \o [i \in DOMAIN config.indexes |-> generateIndexSQL(tableName, config.indexes[i])]
          \o [i \in DOMAIN config.constraints |->
                generateConstraintSQL(tableName, config.constraints[i])]
          \o [i \in DOMAIN config.triggers |-> generateTriggerSQL(tableName, config.triggers[i])],
          <<NL>>)

(***************************************************************************)
(* TableConfig, IndexConfig and the result of Table.getInfo                *)
(***************************************************************************)
\* an index over the given fields, neither unique nor search
Index(name, fields) ==
  [ name |-> name, fields |-> fields, unique |-> FALSE, hasSearch |-> FALSE,
    analyzer |-> "", hasBm25 |-> FALSE, k1 |-> "", b |-> "", highlights |-> FALSE ]

\* a TableConfig with only its fields given
Table(fields) ==
  [ schema |-> "", hasComment |-> FALSE, comment |-> "", permissions |-> NoPerm,
    fields |-> fields, indexes |-> <<>>, constraints |-> <<>>, triggers |-> <<>> ]

\* an empty name -> text map
EmptyMap == [n \in {} |-> <<>>]

\* info.table when INFO FOR TABLE names no schema mode, permissions or comment
NoTableInfo == [schema |-> "", permissions |-> NoPerm, hasComment |-> FALSE, comment |-> ""]

\* the permissions getInfo derives from info.permissions of the payload
InfoPermissions(raw) ==
  IF raw.k = "string" /\ raw.s # ""
  THEN (IF Upper(raw.s) \in {"FULL", "NONE"} THEN Blanket(Upper(raw.s)) ELSE NoPerm)
  ELSE IF raw.k = "object"
  THEN (IF raw.select # "" \/ raw.create # "" \/ raw.update # "" \/ raw.delete # ""
        THEN PermMap(raw.select, raw.create, raw.update, raw.delete)
        ELSE NoPerm)
  ELSE NoPerm

\* getInfo reading the maps of the payload whether or not the query resolved
getInfoKeepsMaps(reply) ==
  [ fields |-> reply.result.fields, indexes |-> reply.result.indexes,
    events |-> reply.result.events, hasTable |-> reply.ok, table |-> NoTableInfo ]

\* Table.getInfo on the reply of `INFO FOR TABLE t`: a rejected query gives
\* empty maps, a resolved one the payload's maps and table attributes
getInfo(reply) ==
  IF ~reply.ok
  THEN [fields |-> EmptyMap, indexes |-> EmptyMap, events |-> EmptyMap,
        hasTable |-> FALSE, table |-> NoTableInfo]
  ELSE [ fields |-> reply.result.fields,
         indexes |-> reply.result.indexes,
         events |-> reply.result.events,
         hasTable |-> TRUE,
         table |-> [ schema |-> (IF reply.result.schema # "" THEN reply.result.schema
                                 ELSE reply.result.mode),
                     permissions |-> InfoPermissions(reply.result.permissions),
                     hasComment |-> reply.result.hasComment,
                     comment |-> (IF reply.result.hasComment THEN reply.result.comment ELSE "") ] ]

(***************************************************************************)
(* Diff Planner: Table.planDiff after its getInfo has resolved             *)
(***************************************************************************)
\* .replace("IF NOT EXISTS ", "OVERWRITE ")
OverwriteVariant(sql) == ReplaceFirst(sql, IfNotExists, OverwriteClause)

\* the live text of a name, "" (falsy) when the map has no such key
Lookup(map, name) == IF name \in DOMAIN map THEN map[name] ELSE <<>>

\* the field loop with its two branches swapped: an absent field is
\* overwritten instead of created
FieldPartsNoCreate(tableName, entry, info) ==
  LET have == Lookup(info.fields, entry.name)
      create == generateFieldSQL(tableName, entry.name, entry.cfg)
      want == OverwriteVariant(create)
  IN IF have = <<>> THEN <<want>>
     ELSE IF Normalized(have) # Normalized(want) THEN <<want>> ELSE <<>>

\* the field loop comparing the two texts as they are, not normalized
FieldPartsRawCompare(tableName, entry, info) ==
  LET have == Lookup(info.fields, entry.name)
      create == generateFieldSQL(tableName, entry.name, entry.cfg)
      want == OverwriteVariant(create)
  IN IF have = <<>> THEN <<create>>
     ELSE IF have # want THEN <<want>> ELSE <<>>

\* what the field loop pushes for one desired field
FieldParts(tableName, entry, info) ==
  LET have == Lookup(info.fields, entry.name)
      create == generateFieldSQL(tableName, entry.name, entry.cfg)
      want == OverwriteVariant(create)
  IN IF have = <<>> THEN <<create>>
     ELSE IF Normalized(have) # Normalized(want) THEN <<want>> ELSE <<>>

\* the index loop dropping a changed index before it defines it again
IndexPartsDropFirst(tableName, idx, info) ==
  LET create == generateIndexSQL(tableName, idx)
      want == OverwriteVariant(create)
  IN IF idx.name \notin DOMAIN info.indexes THEN <<create>>
     ELSE IF Normalized(info.indexes[idx.name]) # Normalized(want)
     THEN << <<"REMOVE", SP, "INDEX", SP, idx.name, SP, "ON", SP, "TABLE", SP, tableName, ";">>,
             create >>
     ELSE <<>>

\* what the index loop pushes for one desired index
IndexParts(tableName, idx, info) ==
  LET create == generateIndexSQL(tableName, idx)
      want == OverwriteVariant(create)
  IN IF idx.name \notin DOMAIN info.indexes THEN <<create>>
     ELSE IF Normalized(info.indexes[idx.name]) # Normalized(want) THEN <<want>> ELSE <<>>

\* what the constraint loop pushes for one desired constraint
ConstraintParts(tableName, c, info) ==
  LET have == Lookup(info.events, c.name)
      create == generateConstraintSQL(tableName, c)
      want == OverwriteVariant(create)
  IN IF have = <<>> THEN <<create>>
     ELSE IF Normalized(have) # Normalized(want) THEN <<want>> ELSE <<>>

\* what the trigger loop pushes for one desired trigger
TriggerParts(tableName, t, info) ==
  LET have == Lookup(info.events, t.name)
      create == generateTriggerSQL(tableName, t)
      want == OverwriteVariant(create)
  IN IF have = <<>> THEN <<create>>
     ELSE IF Normalized(have) # Normalized(want) THEN <<want>> ELSE <<>>

\* concatenation of a sequence of sequences (successive parts.push calls)
RECURSIVE Flatten(_)
Flatten(ss) == IF ss = <<>> THEN <<>> ELSE Head(ss) \o Flatten(Tail(ss))

\* samePerms leaving the delete slot out of the comparison
samePermsNoDelete(a, b) ==
  IF a.k = "undef" /\ b.k = "undef" THEN TRUE
  ELSE IF a.k = "undef" \/ b.k = "undef" THEN FALSE
  ELSE IF a.k = "blanket" \/ b.k = "blanket" THEN a.k = b.k /\ a.s = b.s
  ELSE a.select = b.select /\ a.create = b.create /\ a.update = b.update

\* samePerms(a, b) of planDiff
samePerms(a, b) ==
  IF a.k = "undef" /\ b.k = "undef" THEN TRUE
  ELSE IF a.k = "undef" \/ b.k = "undef" THEN FALSE
  ELSE IF a.k = "blanket" \/ b.k = "blanket" THEN a.k = b.k /\ a.s = b.s
  ELSE /\ a.select = b.select
       /\ a.create = b.create
       /\ a.update = b.update
       /\ a.delete = b.delete

\* the alters array of planDiff: mode, permissions, comment
Alters(config, info) ==
  LET currentTable == IF info.hasTable THEN info.table ELSE NoTableInfo
      mode == IF config.schema # "" /\ config.schema # currentTable.schema
              THEN << <<config.schema>> >> ELSE <<>>
      permsDiffer ==
        \/ (config.permissions.k # "undef" /\ ~samePerms(config.permissions, currentTable.permissions))
        \/ (config.permissions.k = "undef" /\ currentTable.permissions.k # "undef")
      p == (IF config.permissions.select # ""
            THEN << <<"FOR", SP, "select", SP, config.permissions.select>> >> ELSE <<>>)
           \o (IF config.permissions.create # ""
               THEN << <<"FOR", SP, "create", SP, config.permissions.create>> >> ELSE <<>>)
           \o (IF config.permissions.update # ""
               THEN << <<"FOR", SP, "update", SP, config.permissions.update>> >> ELSE <<>>)
           \o (IF config.permissions.delete # ""
               THEN << <<"FOR", SP, "delete", SP, config.permissions.delete>> >> ELSE <<>>)
      perms ==
        IF ~permsDiffer THEN <<>>
        ELSE IF config.permissions.k = "blanket" /\ config.permissions.s \in {"FULL", "NONE"}
        THEN << <<"PERMISSIONS", SP, config.permissions.s>> >>
        ELSE IF config.permissions.k = "map" /\ p # <<>>
        THEN << <<"PERMISSIONS", SP>> \o Join(p, <<SP>>) >>
        ELSE <<>>
      comment ==
        IF /\ config.hasComment
           /\ ~(currentTable.hasComment /\ currentTable.comment = config.comment)
        THEN << <<"COMMENT", SP>> \o JSONStringify(StrVal(config.comment)) >>
        ELSE <<>>
  IN mode \o perms \o comment

\* the ALTER TABLE statement pushed last, if alters is not empty
AlterParts(tableName, config, info) ==
  IF Alters(config, info) # <<>>
  THEN << <<"ALTER", SP, "TABLE", SP, tableName, SP>> \o Join(Alters(config, info), <<SP>>) \o <<";">> >>
  ELSE <<>>

\* planDiff pushing the ALTER TABLE statement before the object statements
PlanPartsAlterFirst(tableName, config, info) ==
  AlterParts(tableName, config, info)
  \o Flatten([i \in DOMAIN config.fields |-> FieldParts(tableName, config.fields[i], info)])
  \o Flatten([i \in DOMAIN config.indexes |-> IndexParts(tableName, config.indexes[i], info)])
  \o Flatten([i \in DOMAIN config.constraints |->
                ConstraintParts(tableName, config.constraints[i], info)])
  \o Flatten([i \in DOMAIN config.triggers |-> TriggerParts(tableName, config.triggers[i], info)])

\* the parts array of Table.planDiff when it returns
PlanParts(tableName, config, info) ==
  Flatten([i \in DOMAIN config.fields |-> FieldParts(tableName, config.fields[i], info)])
  \o Flatten([i \in DOMAIN config.indexes |-> IndexParts(tableName, config.indexes[i], info)])
  \o Flatten([i \in DOMAIN config.constraints |->
                ConstraintParts(tableName, config.constraints[i], info)])
  \o Flatten([i \in DOMAIN config.triggers |-> TriggerParts(tableName, config.triggers[i], info)])
  \o AlterParts(tableName, config, info)

\* Table.planDiff: parts.join("\n")
TablePlanDiff(tableName, config, info) == Join(PlanParts(tableName, config, info), <<NL>>)

(***************************************************************************)
(* The live database behind rpc.query (the Transport collaborator): its    *)
(* object catalog, the payload of INFO FOR TABLE, and the execution of a   *)
(* batch of definition statements.                                         *)
(***************************************************************************)
\* info.permissions of the payload: absent, a string, or a per-operation object
NoRawPerm == [k |-> "undef", s |-> "", select |-> "", create |-> "", update |-> "", delete |-> ""]

\* the result member of a resolved INFO FOR TABLE reply
InfoPayload(entry) ==
  [ fields |-> entry.fields, indexes |-> entry.indexes, events |-> entry.events,
    schema |-> entry.schema, mode |-> "", permissions |-> entry.permissions,
    hasComment |-> entry.hasComment, comment |-> entry.comment ]

\* is position i of text, in the segment that starts after position from,
\* inside a `-- ...` comment line
InComment(text, from, i) ==
  \E j \in (from + 1) .. i : text[j] = "--" /\ \A k \in j .. i : text[k] # NL

\* the statements of a batch: `;` ends a statement, `-- ...` lines and the
\* whitespace before a statement are skipped
Statements(text) ==
  LET ends == SelectSeq([i \in DOMAIN text |-> i], LAMBDA i : text[i] = ";")
      from(k) == IF k = 1 THEN 0 ELSE ends[k - 1]
      start(k) == Least({i \in (from(k) + 1) .. ends[k] :
                           ~IsSpace(text[i]) /\ ~InComment(text, from(k), i)})
  IN [k \in DOMAIN ends |-> SubSeq(text, start(k), ends[k])]

\* the existence clause of a DEFINE statement
StmtGuard(st) ==
  IF MatchAt(st, IfNotExists, 5) THEN "ifNotExists"
  ELSE IF MatchAt(st, OverwriteClause, 5) THEN "overwrite"
  ELSE "plain"

\* position of the defined name in a DEFINE statement
NamePos(st) ==
  CASE StmtGuard(st) = "ifNotExists" -> 5 + Len(IfNotExists)
    [] StmtGuard(st) = "overwrite" -> 5 + Len(OverwriteClause)
    [] OTHER -> 5

StmtName(st) == st[NamePos(st)]

\* the table of a DEFINE FIELD / INDEX / EVENT ... ON TABLE tb statement
StmtTable(st) == st[NamePos(st) + 6]

\* the text INFO FOR TABLE reports for a definition: the statement as sent,
\* or the statement without its existence clause and final semicolon
StoredText(format, st) ==
  IF format = "verbatim" THEN st
  ELSE LET bare == SubSeq(st, 1, 4) \o SubSeq(st, NamePos(st), Len(st))
       IN IF bare[Len(bare)] = ";" THEN SubSeq(bare, 1, Len(bare) - 1) ELSE bare

\* the token after the first occurrence of pat in st, "" if there is none
TokenAfter(st, pat) ==
  LET occ == Occurrences(st, pat)
  IN IF occ # {} /\ Least(occ) + Len(pat) <= Len(st) THEN st[Least(occ) + Len(pat)] ELSE ""

\* the PERMISSIONS clause of a DEFINE TABLE / ALTER TABLE statement
StmtPermissions(st) ==
  IF TokenAfter(st, <<"PERMISSIONS", SP>>) \in {"FULL", "NONE"}
  THEN [NoRawPerm EXCEPT !.k = "string", !.s = TokenAfter(st, <<"PERMISSIONS", SP>>)]
  ELSE [k |-> "object", s |-> "",
        select |-> TokenAfter(st, <<"FOR", SP, "select", SP>>),
        create |-> TokenAfter(st, <<"FOR", SP, "create", SP>>),
        update |-> TokenAfter(st, <<"FOR", SP, "update", SP>>),
        delete |-> TokenAfter(st, <<"FOR", SP, "delete", SP>>)]

HasToken(st, tok) == \E i \in DOMAIN st : st[i] = tok

\* one statement executed against the catalog
ExecStatement(cat, format, st) ==
  IF Len(st) < 5 THEN cat
  ELSE IF st[1] = "DEFINE" /\ st[3] = "TABLE"
  THEN LET tb == StmtName(st)
       IN IF tb \notin DOMAIN cat \/ (StmtGuard(st) = "ifNotExists" /\ cat[tb].exists)
          THEN cat
          ELSE [cat EXCEPT ![tb].exists = TRUE,
                           ![tb].schema = st[NamePos(st) + 2],
                           ![tb].permissions =
                              IF HasToken(st, "PERMISSIONS") THEN StmtPermissions(st) ELSE NoRawPerm]
  ELSE IF st[1] = "DEFINE" /\ st[3] \in {"FIELD", "INDEX", "EVENT"}
  THEN LET tb == StmtTable(st)
           name == StmtName(st)
           member == CASE st[3] = "FIELD" -> "fields"
                       [] st[3] = "INDEX" -> "indexes"
                       [] OTHER -> "events"
       IN IF tb \notin DOMAIN cat
             \/ (StmtGuard(st) = "ifNotExists" /\ name \in DOMAIN cat[tb][member])
          THEN cat
          ELSE [cat EXCEPT ![tb].exists = TRUE,
                           ![tb][member] = (name :> StoredText(format, st)) @@ @]
  ELSE IF st[1] = "ALTER" /\ st[3] = "TABLE"
  THEN LET tb == st[5]
       IN IF tb \notin DOMAIN cat THEN cat
          ELSE [cat EXCEPT
                  ![tb].exists = TRUE,
                  ![tb].schema = IF Len(st) >= 7 /\ st[7] \in {"SCHEMAFULL", "SCHEMALESS"}
                                 THEN st[7] ELSE @,
                  ![tb].permissions = IF HasToken(st, "PERMISSIONS") THEN StmtPermissions(st) ELSE @,
                  ![tb].hasComment = IF HasToken(st, "COMMENT") THEN TRUE ELSE @,
                  ![tb].comment = IF HasToken(st, "COMMENT")
                                  THEN TokenAfter(st, <<"COMMENT", SP, "\"">>) ELSE @]
  ELSE cat

\* a batch executed statement by statement
RECURSIVE ExecStatements(_, _, _)
ExecStatements(cat, format, sts) ==
  IF sts = <<>> THEN cat
  ELSE ExecStatements(ExecStatement(cat, format, Head(sts)), format, Tail(sts))

DbExecute(cat, format, sql) == ExecStatements(cat, format, Statements(sql))

\* the errors the database or the transport can answer a query with
DbErrors == {"permission denied", "connection closed"}

(***************************************************************************)
(* Bounds and the desired schemas the model draws from                     *)
(***************************************************************************)
\* ORM operations started in one behaviour of Spec
MaxOps == 1
\* ORM operations started in one behaviour of SpecConc
MaxConcOps == 2
\* definitions changed by other clients of the database in one behaviour
MaxExternal == 1

\* users: { email: string, required } with a unique index on email
UsersBasic ==
  [ Table(<< Entry("email", [Field("string") EXCEPT !.required = TRUE]) >>)
    EXCEPT !.indexes = << [Index("idx_email", <<"email">>) EXCEPT !.unique = TRUE] >> ]

\* users with a default, a commented field, nested properties, a constraint,
\* a trigger and all three table attributes
UsersFull(roleDefault) ==
  [ Table(<< Entry("email", [Field("string") EXCEPT !.required = TRUE,
                                                    !.comment = "login"]),
             Entry("role", [Field("string") EXCEPT !.default = StrVal(roleDefault)]),
             Entry("profile", [Field("object") EXCEPT
                                 !.hasProperties = TRUE,
                                 !.properties = << Entry("city", Field("string")) >>]) >>)
    EXCEPT !.indexes = << [Index("idx_email", <<"email">>) EXCEPT !.unique = TRUE] >>,
           !.constraints = << [name |-> "chk_email", expression |-> "email != NONE"] >>,
           !.triggers = << [name |-> "on_create", event |-> "CREATE",
                            expression |-> "CREATE log"] >>,
           !.schema = "SCHEMAFULL",
           !.permissions = Blanket("FULL"),
           !.hasComment = TRUE,
           !.comment = "Users table" ]

\* posts with an array-of-object field and a search index
Posts(analyzer) ==
  [ Table(<< Entry("title", Field("string")),
             Entry("metrics", [Field("array") EXCEPT
                                 !.arrayOf = [NoArrayOf EXCEPT
                                                !.k = "object",
                                                !.properties = << Entry("score", Field("number")) >>]]) >>)
    EXCEPT !.indexes = << [Index("ft_title", <<"title">>) EXCEPT
                             !.hasSearch = TRUE, !.analyzer = analyzer, !.hasBm25 = TRUE,
                             !.k1 = "1.2", !.b = "0.75", !.highlights = TRUE] >>,
           !.permissions = PermMap("where true", "", "", "") ]

\* DatabaseSchema values: sequences of (table name, TableConfig) in declaration order
SchemaBasic == << Entry("users", UsersBasic) >>
SchemaGuest == << Entry("users", UsersFull("guest")), Entry("posts", Posts("english")) >>
SchemaOld == << Entry("users", UsersFull("Old")), Entry("posts", Posts("english")) >>

Schemas ==
  {SchemaBasic, SchemaGuest, SchemaOld,
   << Entry("posts", Posts("simple")), Entry("users", UsersFull("guest")) >>}

\* the tables of the database
TableNames == {"users", "posts", "legacy"}

(***************************************************************************)
(* The catalogs an ORM instance can find when it is constructed: a fresh   *)
(* database, or one an earlier deployment of some schema has left behind.  *)
(***************************************************************************)
FreshCatalog ==
  [t \in TableNames |->
     [ exists |-> FALSE, schema |-> "", permissions |-> NoRawPerm, hasComment |-> FALSE,
       comment |-> "", fields |-> EmptyMap, indexes |-> EmptyMap, events |-> EmptyMap ]]

\* SurrealORM.planDiff when every INFO FOR TABLE resolves against catalog cat
SchemaPlanDiff(s, cat) ==
  Join(SelectSeq([i \in DOMAIN s |->
                    TablePlanDiff(s[i].name, s[i].cfg,
                                  getInfo([ok |-> TRUE, result |-> InfoPayload(cat[s[i].name])]))],
                 LAMBDA sql : Trim(sql) # <<>>),
       <<NL, NL>>)

\* SurrealORM.migrateV2 run to completion on catalog cat
Migrated(s, cat, format) ==
  DbExecute(cat, format,
            Join([i \in DOMAIN s |-> generateCreateTableSQL(s[i].name, s[i].cfg)], <<NL>>))

\* SurrealORM.applyDiff run to completion on catalog cat
Applied(s, cat, format) == DbExecute(cat, format, SchemaPlanDiff(s, cat))

\* every stored definition re-entered with other spacing and letter case
Reformatted(text) ==
  <<NL>> \o ReplaceFirst([i \in DOMAIN text |-> IF text[i] = SP THEN TAB ELSE Lower(text[i])],
                         <<TAB>>, <<SP, NL, TAB>>)
         \o <<SP>>

ReformattedCatalog(cat) ==
  [t \in DOMAIN cat |->
     [cat[t] EXCEPT !.fields = [n \in DOMAIN @ |-> Reformatted(@[n])],
                    !.indexes = [n \in DOMAIN @ |-> Reformatted(@[n])],
                    !.events = [n \in DOMAIN @ |-> Reformatted(@[n])]]]

\* what a deployment of schema s has left in a fresh database
Deployed(s, style, format) ==
  LET converged == Applied(s, Applied(s, Applied(s, FreshCatalog, format), format), format)
  IN CASE style = "created" -> Migrated(s, FreshCatalog, format)
       [] style = "converged" -> converged
       [] OTHER -> ReformattedCatalog(converged)

InitialCatalogs(schemas, format) ==
  {FreshCatalog} \cup {Deployed(s, style, format) : s \in schemas, style \in {"created", "converged", "reformatted"}}

(***************************************************************************)
(* State                                                                   *)
(***************************************************************************)
VARIABLES
  schema,      \* SurrealORM.schema / SurrealORM.tables of the instance
  db,          \* the live database's catalog: table name -> definitions
  dbFormat,    \* how the database reports a stored definition
  dbVersion,   \* number of writes the database has executed
  v0,          \* dbVersion when the running operation began
  pc,          \* where the running ORM operation is suspended: idle, info, write
  op,          \* the running (or last) operation: planDiff, applyDiff, migrateV2
  ti,          \* index of the table the operation is at
  chunks,      \* SurrealORM.planDiff: chunks
  infos,       \* the getInfo result of each Table.planDiff of this invocation
  tparts,      \* the parts array of each Table.planDiff of this invocation
  rpcLog,      \* the queries this invocation has sent through rpc.query
  outcome,     \* how the last operation settled, and the value it resolved with
  plans,       \* the last two plans computed, with the catalog versions they saw
  opsLeft,     \* operations that may still be started
  extLeft,     \* changes other clients may still make
  dbTables,    \* introspectDatabase: tables
  introspected, \* the TableConfigs introspectTable has returned in this invocation
  liveTables,  \* planDestructive: liveTables
  droppables   \* planDestructive: droppables

\* MemoryCache (src/src/cache/index.ts)
VARIABLES
  cache,       \* MemoryCache.cache: the Map's entries in insertion order
  accessOrder, \* MemoryCache.accessOrder
  config,      \* MemoryCache.config: maxSize, strategy, defaultTTL
  now,         \* what Date.now() returns
  settings,    \* the set calls suspended at `await this.evict()`, oldest first
  touches,     \* the get hits and the stores of set, in the order they happened
  cacheOpsLeft \* cache operations that may still be called

cacheVars == <<cache, accessOrder, config, now, settings, touches, cacheOpsLeft>>

\* ConnectionPool (src/src/migrations/migration-manager.ts)
VARIABLES
  connections,  \* ConnectionPool.connections: PooledConnections in array order
  waitingQueue, \* ConnectionPool.waitingQueue: the acquire calls waiting, oldest first
  poolConfig,   \* ConnectionPool.config: minConnections, maxConnections
  acquirers,    \* each caller's acquire call: where it is suspended, its connection
  managers,     \* ConnectionManagers constructed so far (they are numbered from 1)
  initializing, \* createConnection calls initialize() has still to make
  lostLeft,     \* connections the network may still drop
  poolOpsLeft   \* acquire calls that may still be made

poolVars == <<connections, waitingQueue, poolConfig, acquirers, managers, initializing,
              lostLeft, poolOpsLeft>>

\* ConnectionManager (src/src/core/connection.ts)
VARIABLES
  state,           \* ConnectionManager.state
  stateChanges,    \* the new states of the stateChange events emitted so far
  ws,              \* ConnectionManager.ws: null, or a socket connecting or open
  connectPc,       \* where the running connect() is suspended
  connectResult,   \* how the last connect() settled, and the state it was called in
  pendingMessages, \* ConnectionManager.pendingMessages: the methods awaiting a reply
  sendResult,      \* how the caller's last send() went
  connOpsLeft      \* connect, send and disconnect calls that may still be made

connVars == <<state, stateChanges, ws, connectPc, connectResult, pendingMessages, sendResult,
              connOpsLeft>>

\* MigrationManager (src/src/migrations/migration-manager.ts)
VARIABLES
  migrations,        \* MigrationManager.migrations: the Map's entries in insertion order
  appliedMigrations, \* MigrationManager.appliedMigrations
  toApply,           \* migrate: plan.toApply of the running (or last) call
  mi,                \* index in toApply of the migration applyMigration is at
  migPc,             \* where the running migrate() is suspended: idle, up, record
  ups,               \* the up steps invoked so far, with appliedMigrations at that moment
  migResult,         \* how the last migrate() settled
  migOpsLeft         \* registerMigration and migrate calls that may still be made

migVars == <<migrations, appliedMigrations, toApply, mi, migPc, ups, migResult, migOpsLeft>>

\* the variables of the SurrealORM instance, its database and run-migrate
ormVars == <<schema, db, dbFormat, dbVersion, v0, pc, op, ti, chunks, infos, tparts, rpcLog,
             outcome, plans, opsLeft, extLeft, dbTables, introspected, liveTables, droppables>>

\* the variables of the other components, which no SurrealORM operation touches
libVars == <<cacheVars, poolVars, connVars, migVars>>

\* what the operations of one component leave alone: everything of the others
besidesCache == <<ormVars, poolVars, connVars, migVars>>
besidesPool == <<ormVars, cacheVars, connVars, migVars>>
besidesConn == <<ormVars, cacheVars, poolVars, migVars>>
besidesMig == <<ormVars, cacheVars, poolVars, connVars>>

\* the variables the SurrealORM operations other than planDestructive leave alone
restVars == <<liveTables, droppables, libVars>>

vars == <<ormVars, libVars>>

\* a MemoryCache nobody uses: new MemoryCache() with its defaults scaled down
CacheIdle ==
  /\ cache = <<>>
  /\ accessOrder = <<>>
  /\ config = [maxSize |-> 1, strategy |-> "LRU", defaultTTL |-> 1]
  /\ now = 0
  /\ settings = <<>>
  /\ touches = <<>>
  /\ cacheOpsLeft = 0

\* the callers of the pool
Acquirers == {"a1", "a2", "a3"}

\* an acquire call that is not running: at idle, holding no connection
NotAcquiring == [pc |-> "idle", conn |-> 0]

\* a ConnectionPool nobody uses, whose initialize() had nothing to create
PoolIdle ==
  /\ connections = <<>>
  /\ waitingQueue = <<>>
  /\ poolConfig = [minConnections |-> 0, maxConnections |-> 1]
  /\ acquirers = [a \in Acquirers |-> NotAcquiring]
  /\ managers = 0
  /\ initializing = 0
  /\ lostLeft = 0
  /\ poolOpsLeft = 0

\* connect() has not been called, or has not settled
NotSettled == [from |-> "none", status |-> "none", error |-> "none"]

\* new ConnectionManager(config, logger, future)
ConnIdle ==
  /\ state = "disconnected"
  /\ stateChanges = <<>>
  /\ ws = "null"
  /\ connectPc = "idle"
  /\ connectResult = NotSettled
  /\ pendingMessages = {}
  /\ sendResult = "none"
  /\ connOpsLeft = 0

\* new MigrationManager(queryEngine, logger) with nothing registered
MigIdle ==
  /\ migrations = <<>>
  /\ appliedMigrations = {}
  /\ toApply = <<>>
  /\ mi = 0
  /\ migPc = "idle"
  /\ ups = <<>>
  /\ migResult = "none"
  /\ migOpsLeft = 0

\* the components other than the SurrealORM instance are not in use
LibIdle == CacheIdle /\ PoolIdle /\ ConnIdle /\ MigIdle

\* status: none, pending (the plan is computed, its write is in flight),
\* resolved, rejected; value: the plan text of planDiff / applyDiff
\* returns: what the promise resolved with (text: the plan, undefined: nothing);
\* raised: the error the database answered with; error: the error the promise
\* rejected with
NoOutcome ==
  [op |-> "none", status |-> "none", value |-> <<>>, returns |-> "none",
   raised |-> "none", error |-> "none",
   info |-> [structured |-> FALSE, fields |-> <<>>, indexes |-> <<>>, permissions |-> NoRawPerm]]

InitWith(schemas, priors, ops, ext) ==
  /\ schema \in schemas
  /\ dbFormat \in {"verbatim", "canonical"}
  /\ db \in InitialCatalogs(priors, dbFormat)
  /\ dbVersion = 0
  /\ v0 = 0
  /\ pc = "idle"
  /\ op = "none"
  /\ ti = 0
  /\ chunks = <<>>
  /\ infos = <<>>
  /\ tparts = <<>>
  /\ rpcLog = <<>>
  /\ outcome = NoOutcome
  /\ plans = <<>>
  /\ opsLeft = ops
  /\ extLeft = ext
  /\ dbTables = <<>>
  /\ introspected = <<>>
  /\ liveTables = <<>>
  /\ droppables = {}

Init == InitWith(Schemas, Schemas, MaxOps, 0) /\ LibIdle

\* a SurrealORM instance nobody calls, on a fresh database
OrmIdle == InitWith({<<>>}, {}, 0, 0) /\ dbFormat = "verbatim"

(***************************************************************************)
(* SurrealORM operations, one action per suspension point                  *)
(***************************************************************************)
\* getInfo making sure the table exists instead of asking for its definitions
InfoQueryAsDefine(tableName) ==
  [kind |-> "info", sql |-> <<"DEFINE", SP, "TABLE", SP>> \o IfNotExists \o <<tableName, ";">>]

\* Table.getInfo: rpc.query(`INFO FOR TABLE ${this.tableName}`)
InfoQuery(tableName) ==
  [kind |-> "info", sql |-> <<"INFO", SP, "FOR", SP, "TABLE", SP, tableName>>]

WriteQuery(sql) == [kind |-> "write", sql |-> sql]

\* an operation begins: its first rpc.query is sent
Begin(o, firstQuery) ==
  /\ pc = "idle"
  /\ opsLeft > 0
  /\ Len(schema) > 0
  /\ opsLeft' = opsLeft - 1
  /\ op' = o
  /\ ti' = 1
  /\ chunks' = <<>>
  /\ infos' = <<>>
  /\ tparts' = <<>>
  /\ rpcLog' = <<firstQuery>>
  /\ outcome' = NoOutcome
  /\ v0' = dbVersion
  /\ dbTables' = <<>>
  /\ introspected' = <<>>
  /\ liveTables' = <<>>
  /\ droppables' = {}
  /\ UNCHANGED libVars
  /\ UNCHANGED <<schema, db, dbFormat, dbVersion, plans, extLeft>>

\* SurrealORM.planDiff() up to the first await table.planDiff() -> getInfo()
StartPlanDiff == Begin("planDiff", InfoQuery(schema[1].name)) /\ pc' = "info"

\* SurrealORM.applyDiff() up to the same await
StartApplyDiff == Begin("applyDiff", InfoQuery(schema[1].name)) /\ pc' = "info"

\* SurrealORM.migrateV2() up to the first await table.ensureSchema()
StartMigrateV2 ==
  /\ Begin("migrateV2", WriteQuery(generateCreateTableSQL(schema[1].name, schema[1].cfg)))
  /\ pc' = "write"

\* what SurrealORM.applyDiff (Promise<void>) and migrateV2 resolve with,
\* whatever the plan was
ApplyReturns(sql) == "undefined"

\* applyDiff catching the database's error and throwing one of its own
PropagateWrapped(e) == "migration failed"

\* an error thrown by an awaited rpc.query inside applyDiff / migrateV2:
\* there is no try/catch, the promise rejects with the same error
Propagate(e) == e

\* SurrealORM.planDiff: if (sql.trim()) chunks.push(sql)
PushChunk(cs, sql) == IF Trim(sql) # <<>> THEN Append(cs, sql) ELSE cs

\* applyDiff sending its plan without looking at it
ApplyQueriesUnconditional(sql) == <<WriteQuery(sql)>>

\* SurrealORM.applyDiff after its planDiff: if (sql.trim()) await this.rpc.query(sql)
ApplyQueries(sql) == IF Trim(sql) # <<>> THEN <<WriteQuery(sql)>> ELSE <<>>

\* INFO FOR TABLE resolves (ok) or rejects: Table.planDiff runs to its return,
\* SurrealORM.planDiff pushes the chunk and goes on to the next table, or joins
\* the chunks; applyDiff then sends the plan if it is not blank
InfoReply(ok) ==
  /\ pc = "info"
  /\ infos' = Append(infos, getInfo([ok |-> ok, result |-> InfoPayload(db[schema[ti].name])]))
  /\ tparts' = Append(tparts, PlanParts(schema[ti].name, schema[ti].cfg, infos'[ti]))
  /\ chunks' = PushChunk(chunks, Join(tparts'[ti], <<NL>>))
  /\ IF ti < Len(schema)
     THEN /\ ti' = ti + 1
          /\ rpcLog' = Append(rpcLog, InfoQuery(schema[ti + 1].name))
          /\ pc' = "info"
          /\ UNCHANGED <<outcome, plans>>
     ELSE /\ ti' = ti
          /\ plans' = <<[op |-> op, from |-> v0, to |-> dbVersion,
                         oks |-> [i \in DOMAIN infos' |-> infos'[i].hasTable],
                         plan |-> Join(chunks', <<NL, NL>>)]>>
                      \o (IF plans = <<>> THEN <<>> ELSE <<plans[1]>>)
          /\ rpcLog' = IF op = "applyDiff" THEN rpcLog \o ApplyQueries(plans'[1].plan)
                       ELSE rpcLog
          /\ pc' = IF rpcLog' # rpcLog THEN "write" ELSE "idle"
          /\ outcome' = [NoOutcome EXCEPT
                           !.op = op,
                           !.status = IF pc' = "write" THEN "pending" ELSE "resolved",
                           !.value = plans'[1].plan,
                           !.returns = IF pc' = "write" THEN "none"
                                       ELSE IF op = "planDiff" THEN "text"
                                       ELSE ApplyReturns(plans'[1].plan)]
  /\ UNCHANGED <<schema, db, dbFormat, dbVersion, v0, op, opsLeft, extLeft, dbTables,
                 introspected>>
  /\ UNCHANGED restVars

\* after a write query settles: migrateV2 goes on to the next table,
\* applyDiff and the last ensureSchema resolve
AfterWrite ==
  IF op = "migrateV2" /\ ti < Len(schema)
  THEN /\ ti' = ti + 1
       /\ rpcLog' = Append(rpcLog, WriteQuery(generateCreateTableSQL(schema[ti + 1].name,
                                                                     schema[ti + 1].cfg)))
       /\ pc' = "write"
       /\ UNCHANGED outcome
  ELSE /\ pc' = "idle"
       /\ outcome' = [outcome EXCEPT !.op = op, !.status = "resolved",
                                     !.returns = ApplyReturns(outcome.value)]
       /\ UNCHANGED <<ti, rpcLog>>

\* the write query resolves: the database has executed the batch
WriteResolves ==
  /\ pc = "write"
  /\ db' = DbExecute(db, dbFormat, rpcLog[Len(rpcLog)].sql)
  /\ dbVersion' = dbVersion + 1
  /\ AfterWrite
  /\ UNCHANGED <<schema, dbFormat, v0, op, chunks, infos, tparts, plans, opsLeft, extLeft,
                 dbTables, introspected>>
  /\ UNCHANGED restVars

\* the write query rejects at its k-th statement (the first or the last one):
\* the statements before it took effect, the operation rejects with the
\* error and sends nothing more
WriteRejects ==
  /\ pc = "write"
  /\ LET sts == Statements(rpcLog[Len(rpcLog)].sql)
     IN \E k \in {1, Len(sts)} : db' = ExecStatements(db, dbFormat, SubSeq(sts, 1, k - 1))
  /\ dbVersion' = dbVersion + 1
  /\ pc' = "idle"
  /\ \E e \in DbErrors :
       outcome' = [outcome EXCEPT !.op = op, !.status = "rejected", !.raised = e,
                                  !.error = Propagate(e)]
  /\ UNCHANGED <<schema, dbFormat, v0, op, ti, chunks, infos, tparts, rpcLog, plans,
                 opsLeft, extLeft, dbTables, introspected>>
  /\ UNCHANGED restVars

Next ==
  \/ StartPlanDiff
  \/ StartApplyDiff
  \/ StartMigrateV2
  \/ InfoReply(TRUE)
  \/ InfoReply(FALSE)
  \/ WriteResolves
  \/ WriteRejects

Spec == Init /\ [][Next]_vars

(***************************************************************************)
(* Other clients of the database, running concurrently with the ORM        *)
(***************************************************************************)
\* statements another client may execute while an ORM operation is suspended
ExternalStatements ==
  { <<"DEFINE", SP, "FIELD", SP, "OVERWRITE", SP, "email", SP, "ON", SP, "TABLE", SP,
      "users", SP, "TYPE", SP, "string", ";">>,
    <<"DEFINE", SP, "FIELD", SP, "legacy", SP, "ON", SP, "TABLE", SP, "posts", SP,
      "TYPE", SP, "string", ";">> }

ExternalWrite ==
  /\ extLeft > 0
  /\ extLeft' = extLeft - 1
  /\ \E st \in ExternalStatements : db' = DbExecute(db, dbFormat, st)
  /\ dbVersion' = dbVersion + 1
  /\ UNCHANGED <<schema, dbFormat, v0, pc, op, ti, chunks, infos, tparts, rpcLog, outcome,
                 plans, opsLeft, dbTables, introspected>>
  /\ UNCHANGED restVars

InitConc == InitWith({SchemaBasic, SchemaGuest}, {SchemaGuest}, MaxConcOps, MaxExternal) /\ LibIdle

\* planDiff invocations, with other clients writing between their steps
NextConc ==
  \/ StartPlanDiff
  \/ InfoReply(TRUE)
  \/ InfoReply(FALSE)
  \/ ExternalWrite

SpecConc == InitConc /\ [][NextConc]_vars

(***************************************************************************)
(* Definition Parser / Introspector                                        *)
(***************************************************************************)
\* position of the first token at or after i that is not whitespace, 0 if none
NextWord(s, i) ==
  LET rest == {j \in i .. Len(s) : ~IsSpace(s[j])}
  IN IF rest = {} THEN 0 ELSE Least(rest)

\* a run of tokens as one string
RECURSIVE Text(_)
Text(s) == IF s = <<>> THEN "" ELSE Head(s) \o Text(Tail(s))

\* the element words of parseFieldType (orm.ts:955 and 960)
SimpleTypes == {"string", "number", "bool", "datetime", "object"}

\* the words [a-z0-9_]+ can match inside array<...>
ElementWords == SimpleTypes \cup {"record", "int", "any"}

\* parseFieldType: the type word of a definition -> type / references / arrayOf
\* ("" stands for undefined)
parseFieldType(typeStr) ==
  LET t == Lower(typeStr)
  IN IF typeStr = "" THEN Field("object")
     ELSE IF \E r \in TableNames : t = "record<" \o r \o ">"
     THEN [Field("record") EXCEPT
             !.references = CHOOSE r \in TableNames : t = "record<" \o r \o ">"]
     ELSE IF \E r \in TableNames : t = "array<record<" \o r \o ">>"
     THEN [Field("array") EXCEPT
             !.arrayOf = [NoArrayOf EXCEPT
                            !.k = "record",
                            !.el = CHOOSE r \in TableNames : t = "array<record<" \o r \o ">>"]]
     ELSE IF \E el \in ElementWords : t = "array<" \o el \o ">"
     THEN LET el == CHOOSE e \in ElementWords : t = "array<" \o e \o ">"
          IN [Field("array") EXCEPT
                !.arrayOf = [NoArrayOf EXCEPT
                               !.k = "string",
                               !.el = IF el \in SimpleTypes THEN el ELSE "object"]]
     ELSE IF t \in SimpleTypes THEN Field(t)
     ELSE Field("object")

\* defStr.match(/\bTYPE\s+([^\s;]+)/i): the captured word, "" if no match
TypeMatch(defStr) ==
  LET hits == {i \in DOMAIN defStr :
                 /\ Upper(defStr[i]) = "TYPE"
                 /\ i < Len(defStr)
                 /\ IsSpace(defStr[i + 1])
                 /\ NextWord(defStr, i + 1) # 0
                 /\ defStr[NextWord(defStr, i + 1)] # ";"}
  IN IF hits = {} THEN "" ELSE defStr[NextWord(defStr, Least(hits) + 1)]

\* ([^;]+?)(?:\s+READONLY|\s+ASSERT|\s+PERMISSIONS|;) matched from position
\* from: the shortest non-empty run up to the first clause end, <<>> if the
\* pattern does not match there
LazyCapture(s, from) ==
  LET stops == {e \in (from + 1) .. Len(s) :
                  \/ s[e] = ";"
                  \/ /\ IsSpace(s[e])
                     /\ NextWord(s, e) # 0
                     /\ Upper(s[NextWord(s, e)]) \in {"READONLY", "ASSERT", "PERMISSIONS"}}
  IN IF from = 0 \/ from > Len(s) THEN <<>>
     ELSE IF s[from] = ";" \/ stops = {} THEN <<>>
     ELSE SubSeq(s, from, Least(stops) - 1)

\* defStr.match(/\bDEFAULT(\s+ALWAYS)?\s+([^;]+?)(?:\s+READONLY|\s+ASSERT|\s+PERMISSIONS|;)/i)
DefaultMatch(defStr) ==
  LET hits == {d \in DOMAIN defStr :
                 /\ Upper(defStr[d]) = "DEFAULT"
                 /\ d < Len(defStr)
                 /\ IsSpace(defStr[d + 1])
                 /\ NextWord(defStr, d + 1) # 0}
      w == NextWord(defStr, Least(hits) + 1)
      always == /\ Upper(defStr[w]) = "ALWAYS"
                /\ w < Len(defStr)
                /\ IsSpace(defStr[w + 1])
                /\ NextWord(defStr, w + 1) # 0
                /\ defStr[NextWord(defStr, w + 1)] # ";"
      expr == LazyCapture(defStr, IF always THEN NextWord(defStr, w + 1) ELSE w)
  IN IF hits = {} THEN [matched |-> FALSE, always |-> FALSE, expr |-> <<>>]
     ELSE IF expr = <<>> THEN [matched |-> FALSE, always |-> FALSE, expr |-> <<>>]
     ELSE [matched |-> TRUE, always |-> always, expr |-> Trim(expr)]

\* the numerals JSON.parse is given
Digits == 0 .. 9

\* s.split(sep) on tokens
SplitAt(s, sep) ==
  LET cuts == <<0>> \o SelectSeq([i \in DOMAIN s |-> i], LAMBDA i : s[i] = sep)
              \o <<Len(s) + 1>>
  IN [k \in 1 .. (Len(cuts) - 1) |-> SubSeq(s, cuts[k] + 1, cuts[k + 1] - 1)]

\* JSON.parse of a scalar; undef when it throws
JSONParseScalar(expr) ==
  IF Len(expr) = 3 /\ expr[1] = "\"" /\ expr[3] = "\"" THEN StrVal(expr[2])
  ELSE IF Len(expr) = 1 /\ expr[1] \in {"true", "false"} THEN BoolVal(expr[1] = "true")
  ELSE IF Len(expr) = 1 /\ \E n \in Digits : ToString(n) = expr[1]
  THEN NumVal(CHOOSE n \in Digits : ToString(n) = expr[1])
  ELSE NoVal

\* cfg.default = JSON.parse(expr), left unset when JSON.parse throws and
\* expr is not wrapped in quotes
JSONParse(expr) ==
  IF Len(expr) >= 2 /\ expr[1] = "[" /\ expr[Len(expr)] = "]"
  THEN LET items == IF Len(expr) = 2 THEN <<>>
                    ELSE SplitAt(SubSeq(expr, 2, Len(expr) - 1), ",")
           vals == [i \in DOMAIN items |-> JSONParseScalar(items[i])]
       IN IF \E i \in DOMAIN vals : vals[i].t = "undef" THEN NoVal ELSE ArrVal(vals)
  ELSE JSONParseScalar(expr)

\* defStr.match(/\bVALUE\s+([^;]+?)(?:\s+READONLY|\s+ASSERT|\s+PERMISSIONS|;)/i):
\* \bVALUE also matches the value of `$value` when whitespace follows it
ValueMatch(defStr) ==
  LET hits == {v \in DOMAIN defStr :
                 /\ Upper(defStr[v]) = "VALUE" \/ defStr[v] = "$value"
                 /\ v < Len(defStr)
                 /\ IsSpace(defStr[v + 1])
                 /\ LazyCapture(defStr, NextWord(defStr, v + 1)) # <<>>}
  IN IF hits = {} THEN <<>>
     ELSE Trim(LazyCapture(defStr, NextWord(defStr, Least(hits) + 1)))

DeletePolicies == {"REJECT", "CASCADE", "IGNORE", "UNSET"}

\* defStr.match(/REFERENCE\s+ON\s+DELETE\s+(REJECT|CASCADE|IGNORE|UNSET|THEN\s+[^\s;]+)/i)
\* and the reference it becomes
ReferenceMatch(defStr) ==
  LET word(i, w) == i # 0 /\ Upper(defStr[i]) = w /\ i < Len(defStr) /\ IsSpace(defStr[i + 1])
      on(i) == NextWord(defStr, i + 1)
      del(i) == NextWord(defStr, on(i) + 1)
      pol(i) == NextWord(defStr, del(i) + 1)
      arg(i) == NextWord(defStr, pol(i) + 1)
      hits == {i \in DOMAIN defStr :
                 /\ word(i, "REFERENCE") /\ word(on(i), "ON") /\ word(del(i), "DELETE")
                 /\ pol(i) # 0
                 /\ \/ Upper(defStr[pol(i)]) \in DeletePolicies
                    \/ /\ word(pol(i), "THEN")
                       /\ arg(i) # 0
                       /\ defStr[arg(i)] # ";"}
      i0 == Least(hits)
  IN IF hits = {} THEN NoOnDelete
     ELSE IF Upper(defStr[pol(i0)]) \in DeletePolicies
     THEN [k |-> "str", v |-> defStr[pol(i0)]]
     ELSE IF defStr[pol(i0)] = "THEN" /\ defStr[pol(i0) + 1] = SP
     THEN [k |-> "then", v |-> defStr[arg(i0)]]
     ELSE [k |-> "str", v |-> Text(SubSeq(defStr, pol(i0), arg(i0)))]

\* introspectTable, info.fields as an object: one definition text -> FieldConfig
ParseFieldText(defStr) ==
  LET base == parseFieldType(TypeMatch(defStr))
      mDef == DefaultMatch(defStr)
      mVal == ValueMatch(defStr)
      \* the words of the token universe that /[()\w]+::/ matches
      NamespacedWords ==
        {"time::now()", "rand::uuid()", "string::is::email($value)", "string::len($value)"}
  IN [base EXCEPT
        !.defaultAlways = mDef.matched /\ mDef.always,
        !.default = IF mDef.matched /\ ~(\E i \in DOMAIN mDef.expr : mDef.expr[i] \in NamespacedWords)
                    THEN JSONParse(mDef.expr) ELSE NoVal,
        !.valueExpr = Text(mVal),
        !.readonly = \E i \in DOMAIN defStr : Upper(defStr[i]) = "READONLY",
        !.onDelete = ReferenceMatch(defStr)]

\* introspectTable, info.fields as an array: one structure -> FieldConfig
\* (a key the structure does not carry reads as undefined)
ParseFieldStructure(f) ==
  [parseFieldType(f.type) EXCEPT
     !.required = (f.nullable = "false" \/ f.required = "true"),
     !.readonly = (f.readonly = "true")]

\* the segments field paths are made of, and the deepest path
PathSegments == {"profile", "addr", "street", "city", "metrics", "score", "views", "*"}

MaxDepth == 3

\* segments joined by "."
RECURSIVE JoinDots(_)
JoinDots(ts) ==
  IF Len(ts) = 1 THEN ts[1] ELSE ts[1] \o "." \o JoinDots(Tail(ts))

\* every dotted path over PathSegments with its segments
PathPairs ==
  {<<JoinDots(ts), ts>> : ts \in UNION {[1 .. n -> PathSegments] : n \in 2 .. MaxDepth}}

\* fullName.split(".") for every dotted path over PathSegments
PathSplit ==
  [p \in {pr[1] : pr \in PathPairs} |-> (CHOOSE pr \in PathPairs : pr[1] = p)[2]]

\* fullName.split("."): a name that is no dotted path is its own only token
Split(fullName) == IF fullName \in DOMAIN PathSplit THEN PathSplit[fullName] ELSE <<fullName>>

\* parent[key] !== undefined, parent[key], parent[key] = cfg on a
\* Record<string, FieldConfig> (a new key goes last, an old key keeps its place)
PropHas(parent, key) == \E i \in DOMAIN parent : parent[i].name = key

PropGet(parent, key) == parent[CHOOSE i \in DOMAIN parent : parent[i].name = key].cfg

PropSet(parent, key, cfg) ==
  IF PropHas(parent, key)
  THEN [i \in DOMAIN parent |-> IF parent[i].name = key THEN Entry(key, cfg) ELSE parent[i]]
  ELSE Append(parent, Entry(key, cfg))

\* { type: "object", properties: {} }
FreshObject == [Field("object") EXCEPT !.hasProperties = TRUE]

\* { type: "array", arrayOf: { object: { properties: {} } } }
FreshArrayObject == [Field("array") EXCEPT !.arrayOf = [NoArrayOf EXCEPT !.k = "object"]]

\* ensureObject making a new container on every reference
ensureObjectAnew(parent, key) == FreshObject

\* ensureObject: the node at parent[key] after the call
ensureObject(parent, key) ==
  IF ~PropHas(parent, key) THEN FreshObject
  ELSE IF PropGet(parent, key).type # "object" THEN FreshObject
  ELSE PropGet(parent, key)

\* ensureArrayObject: the node at parent[key] after the call
ensureArrayObject(parent, key) ==
  IF ~PropHas(parent, key) THEN FreshArrayObject
  ELSE IF PropGet(parent, key).type # "array" \/ PropGet(parent, key).arrayOf.k # "object"
  THEN FreshArrayObject
  ELSE PropGet(parent, key)

\* the token loop of addNested from the token at hand on: cursor is the map
\* the loop has descended to, inContainer is currentContainer !== null
RECURSIVE AddPath(_, _, _, _)
AddPath(cursor, tokens, cfg, inContainer) ==
  IF tokens = <<>> THEN cursor
  ELSE IF Head(tokens) = "*" THEN AddPath(cursor, Tail(tokens), cfg, inContainer)
  ELSE IF Len(tokens) >= 2 /\ tokens[2] = "*"
  THEN LET node == ensureArrayObject(cursor, Head(tokens))
           props == AddPath(node.arrayOf.properties, SubSeq(tokens, 3, Len(tokens)), cfg, TRUE)
       IN PropSet(cursor, Head(tokens), [node EXCEPT !.arrayOf.properties = props])
  ELSE IF Len(tokens) = 1
  THEN IF inContainer \/ ~PropHas(cursor, Head(tokens))
       THEN PropSet(cursor, Head(tokens), cfg)
       ELSE cursor
  ELSE LET node == ensureObject(cursor, Head(tokens))
           props == AddPath(node.properties, Tail(tokens), cfg, TRUE)
       IN PropSet(cursor, Head(tokens),
                  [node EXCEPT !.hasProperties = TRUE, !.properties = props])

\* addNested(fullName, cfg): nested after the call
addNested(nested, fullName, cfg) ==
  IF Len(Split(fullName)) = 1
  THEN IF PropHas(nested, fullName) THEN nested ELSE PropSet(nested, fullName, cfg)
  ELSE AddPath(nested, Split(fullName), cfg, FALSE)

\* for (const [fname, cfg] of Object.entries(fields)) addNested(fname, cfg)
RECURSIVE Reconstruct(_, _)
Reconstruct(nested, fields) ==
  IF fields = <<>> THEN nested
  ELSE Reconstruct(addNested(nested, Head(fields).name, Head(fields).cfg), Tail(fields))

\* fields[name] = cfg: Object.entries(fields) has one entry per name, at the
\* place of the name's first assignment and with its last value
FieldsObject(entries) ==
  LET firsts == SelectSeq([i \in DOMAIN entries |-> i],
                          LAMBDA i : \A j \in 1 .. (i - 1) : entries[j].name # entries[i].name)
      last(n) == CHOOSE i \in DOMAIN entries :
                   entries[i].name = n /\ \A j \in DOMAIN entries : entries[j].name = n => j <= i
  IN [k \in DOMAIN firsts |-> entries[last(entries[firsts[k]].name)]]

\* the index of introspectTable for one member of info.indexes
ParseIndex(idxName, sql) ==
  LET at(w) == {i \in DOMAIN sql : Upper(sql[i]) = w /\ i < Len(sql)}
      fAt == {i \in at("FIELDS") : IsSpace(sql[i + 1]) /\ NextWord(sql, i + 1) # 0
                                    /\ sql[NextWord(sql, i + 1)] # ";"}
      f0 == NextWord(sql, Least(fAt) + 1)
      fEnd == Least({e \in f0 .. (Len(sql) + 1) : e > Len(sql) \/ IsSpace(sql[e]) \/ sql[e] = ";"})
      list == SplitAt(SubSeq(sql, f0, fEnd - 1), ",")
      sAt == {i \in at("SEARCH") :
                /\ IsSpace(sql[i + 1])
                /\ NextWord(sql, i + 1) # 0
                /\ Upper(sql[NextWord(sql, i + 1)]) = "ANALYZER"
                /\ NextWord(sql, i + 1) < Len(sql)
                /\ IsSpace(sql[NextWord(sql, i + 1) + 1])
                /\ NextWord(sql, NextWord(sql, i + 1) + 1) # 0
                /\ sql[NextWord(sql, NextWord(sql, i + 1) + 1)] # ";"}
      bAt == {i \in at("BM25") :
                /\ NextWord(sql, i + 1) # 0
                /\ sql[NextWord(sql, i + 1)] = "("
                /\ \E c \in i .. Len(sql) : sql[c] = ","
                /\ \E c \in i .. Len(sql) : sql[c] = ")"}
      open == NextWord(sql, Least(bAt) + 1)
      comma == Least({c \in open .. Len(sql) : sql[c] = ","})
      close == Least({c \in comma .. Len(sql) : sql[c] = ")"})
      hasSearch == sAt # {}
      hasBm == hasSearch /\ bAt # {}
  IN [ name |-> idxName,
       fields |-> IF fAt = {} THEN <<>> ELSE [k \in DOMAIN list |-> Text(Trim(list[k]))],
       unique |-> \E i \in DOMAIN sql : Upper(sql[i]) = "UNIQUE",
       hasSearch |-> hasSearch,
       analyzer |-> IF hasSearch
                    THEN sql[NextWord(sql, NextWord(sql, Least(sAt) + 1) + 1)] ELSE "",
       hasBm25 |-> hasBm,
       k1 |-> IF hasBm THEN Text(Trim(SubSeq(sql, open + 1, comma - 1))) ELSE "",
       b |-> IF hasBm THEN Text(Trim(SubSeq(sql, comma + 1, close - 1))) ELSE "",
       highlights |-> hasSearch /\ \E i \in DOMAIN sql : Upper(sql[i]) = "HIGHLIGHTS" ]

\* permissions of introspectTable from info.permissions
IntrospectPermissions(p) ==
  IF p.k = "string"
  THEN IF Upper(p.s) \in {"FULL", "NONE"} THEN Blanket(Upper(p.s)) ELSE NoPerm
  ELSE IF p.k = "object" /\ (p.select # "" \/ p.create # "" \/ p.update # "" \/ p.delete # "")
  THEN PermMap(p.select, p.create, p.update, p.delete)
  ELSE NoPerm

\* introspectTable from the resolved info on: the TableConfig it returns.
\* info.fields is an array of structures, or the definition texts by name.
TableConfigOf(info) ==
  LET parsed == [i \in DOMAIN info.fields |->
                   Entry(info.fields[i].name,
                         IF info.structured
                         THEN ParseFieldStructure(info.fields[i])
                         ELSE ParseFieldText(info.fields[i].sql))]
      named == SelectSeq(parsed, LAMBDA e : e.name # "")
  IN [ fields |-> Reconstruct(<<>>, FieldsObject(named)),
       indexes |-> [i \in DOMAIN info.indexes |->
                      ParseIndex(info.indexes[i].name, info.indexes[i].sql)],
       permissions |-> IntrospectPermissions(info.permissions) ]

(***************************************************************************)
(* SurrealORM.introspectTable / introspectDatabase, one action per         *)
(* suspension point                                                        *)
(***************************************************************************)
\* rpc.query(`INFO FOR TABLE ${table} STRUCTURE`)
StructureQuery(tableName) ==
  [kind |-> "info",
   sql |-> <<"INFO", SP, "FOR", SP, "TABLE", SP, tableName, SP, "STRUCTURE">>]

\* the orders in which the members of a reply's map can arrive
Orders(S) ==
  {s \in [1 .. Cardinality(S) -> S] : \A i, j \in DOMAIN s : s[i] = s[j] => i = j}

\* info.indexes and info.permissions of a reply about catalog entry e
InfoIndexes(e) ==
  LET order == CHOOSE s \in Orders(DOMAIN e.indexes) : TRUE
  IN [i \in DOMAIN order |-> [name |-> order[i], sql |-> e.indexes[order[i]]]]

\* the result of INFO FOR TABLE ... STRUCTURE: fields as an array of
\* { name, type } structures, arriving in the given order
StructureInfo(e, order) ==
  [ structured |-> TRUE,
    fields |-> [i \in DOMAIN order |->
                  [name |-> order[i], type |-> TypeMatch(e.fields[order[i]]),
                   nullable |-> "undef", required |-> "undef", readonly |-> "undef"]],
    indexes |-> InfoIndexes(e),
    permissions |-> e.permissions ]

\* the result of INFO FOR TABLE: fields as definition texts by name
RawInfo(e, order) ==
  [ structured |-> FALSE,
    fields |-> [i \in DOMAIN order |-> [name |-> order[i], sql |-> e.fields[order[i]]]],
    indexes |-> InfoIndexes(e),
    permissions |-> e.permissions ]

\* the table the query in flight asks about
TableAsked == rpcLog[Len(rpcLog)].sql[7]

\* an introspectTable rejection reaching introspectDatabase and its caller
IntrospectRejects ==
  /\ pc' = "idle"
  /\ \E e \in DbErrors :
       outcome' = [outcome EXCEPT !.op = op, !.status = "rejected", !.raised = e, !.error = e]
  /\ UNCHANGED <<ti, rpcLog, dbTables, introspected>>

\* introspectTable(table) up to its first await
StartIntrospectTable ==
  \E tb \in TableNames : Begin("introspectTable", StructureQuery(tb)) /\ pc' = "structure"

\* introspectDatabase() up to the await of infoDB
StartIntrospectDatabase ==
  /\ Begin("introspectDatabase", [kind |-> "info", sql |-> <<"INFO", SP, "FOR", SP, "DB">>])
  /\ pc' = "infodb"

\* INFO FOR DB settles: introspectDatabase lists the tables and calls
\* introspectTable for the first one, or resolves with {} when there is none
InfoDbReply(ok) ==
  /\ pc = "infodb"
  /\ IF ok
     THEN /\ \E order \in Orders({t \in DOMAIN db : db[t].exists}) : dbTables' = order
          /\ IF dbTables' = <<>>
             THEN /\ pc' = "idle"
                  /\ outcome' = [NoOutcome EXCEPT !.op = op, !.status = "resolved",
                                                  !.returns = "schema"]
                  /\ UNCHANGED rpcLog
             ELSE /\ pc' = "structure"
                  /\ rpcLog' = Append(rpcLog, StructureQuery(dbTables'[1]))
                  /\ UNCHANGED outcome
          /\ UNCHANGED <<ti, introspected>>
     ELSE IntrospectRejects
  /\ UNCHANGED <<schema, db, dbFormat, dbVersion, v0, op, chunks, infos, tparts, plans,
                 opsLeft, extLeft>>
  /\ UNCHANGED restVars

\* introspectTable from its resolved info to its return; introspectDatabase
\* stores the TableConfig and goes on to the next table, or resolves
IntrospectReturns(info) ==
  /\ introspected' = Append(introspected, Entry(TableAsked, TableConfigOf(info)))
  /\ IF op = "introspectDatabase" /\ ti < Len(dbTables)
     THEN /\ ti' = ti + 1
          /\ rpcLog' = Append(rpcLog, StructureQuery(dbTables[ti + 1]))
          /\ pc' = "structure"
          /\ outcome' = [outcome EXCEPT !.info = info]
     ELSE /\ pc' = "idle"
          /\ outcome' = [NoOutcome EXCEPT
                           !.op = op, !.status = "resolved", !.info = info,
                           !.returns = IF op = "introspectDatabase" THEN "schema"
                                       ELSE "config"]
          /\ UNCHANGED <<ti, rpcLog>>
  /\ UNCHANGED dbTables

\* INFO FOR TABLE ... STRUCTURE settles: on success the reply is parsed, on
\* failure the catch block sends INFO FOR TABLE
StructureReply(ok) ==
  /\ pc = "structure"
  /\ IF ok
     THEN \E order \in Orders(DOMAIN db[TableAsked].fields) :
            IntrospectReturns(StructureInfo(db[TableAsked], order))
     ELSE /\ rpcLog' = Append(rpcLog, InfoQuery(TableAsked))
          /\ pc' = "raw"
          /\ UNCHANGED <<ti, outcome, dbTables, introspected>>
  /\ UNCHANGED <<schema, db, dbFormat, dbVersion, v0, op, chunks, infos, tparts, plans,
                 opsLeft, extLeft>>
  /\ UNCHANGED restVars

\* the INFO FOR TABLE of the catch block settles: on success the reply is
\* parsed; the query is awaited outside any try, so on failure
\* introspectTable rejects
RawReply(ok) ==
  /\ pc = "raw"
  /\ IF ok
     THEN \E order \in Orders(DOMAIN db[TableAsked].fields) :
            IntrospectReturns(RawInfo(db[TableAsked], order))
     ELSE IntrospectRejects
  /\ UNCHANGED <<schema, db, dbFormat, dbVersion, v0, op, chunks, infos, tparts, plans,
                 opsLeft, extLeft>>
  /\ UNCHANGED restVars

\* the schemas whose deployments the introspector is run against
ScalarTypes == {"string", "number", "bool", "datetime"}

SchemaScalar(type, required) ==
  << Entry("users", Table(<< Entry("name", [Field(type) EXCEPT !.required = required]) >>)) >>

\* a two-level nested object, and an array of objects with one property
SchemaNested ==
  << Entry("users",
           Table(<< Entry("profile",
                          [Field("object") EXCEPT
                             !.hasProperties = TRUE,
                             !.properties =
                                << Entry("addr",
                                         [Field("object") EXCEPT
                                            !.hasProperties = TRUE,
                                            !.properties = << Entry("street", Field("string")) >>]),
                                   Entry("city", Field("string")) >>]),
                    Entry("metrics",
                          [Field("array") EXCEPT
                             !.arrayOf = [NoArrayOf EXCEPT
                                            !.k = "object",
                                            !.properties = << Entry("score", Field("number")) >>]]) >>)) >>

\* an array of objects with two sibling properties
SchemaSiblings ==
  << Entry("posts",
           Table(<< Entry("metrics",
                          [Field("array") EXCEPT
                             !.arrayOf = [NoArrayOf EXCEPT
                                            !.k = "object",
                                            !.properties = << Entry("score", Field("number")),
                                                              Entry("views", Field("number")) >>]]) >>)) >>

\* SchemaNested with changed leaves (profile.city required, metrics.*.score a
\* string) and a new leaf (profile.zip)
SchemaLeaf ==
  << Entry("users",
           Table(<< Entry("profile",
                          [Field("object") EXCEPT
                             !.hasProperties = TRUE,
                             !.properties =
                                << Entry("addr",
                                         [Field("object") EXCEPT
                                            !.hasProperties = TRUE,
                                            !.properties = << Entry("street", Field("string")) >>]),
                                   Entry("city", [Field("string") EXCEPT !.required = TRUE]),
                                   Entry("zip", Field("string")) >>]),
                    Entry("metrics",
                          [Field("array") EXCEPT
                             !.arrayOf = [NoArrayOf EXCEPT
                                            !.k = "object",
                                            !.properties = << Entry("score", Field("string")) >>]]) >>)) >>

\* a composite unique index over two fields
SchemaComposite ==
  << Entry("users",
           [ Table(<< Entry("email", Field("string")), Entry("name", Field("string")) >>)
             EXCEPT !.indexes = << [Index("idx_email_name", <<"email", "name">>)
                                      EXCEPT !.unique = TRUE] >> ]) >>

\* operations started in one behaviour of SpecIntro
MaxIntroOps == 1

\* the database holds what was deployed from the instance's schema
InitIntro ==
  \E s \in {SchemaScalar(t, r) : t \in ScalarTypes, r \in BOOLEAN}
           \cup {SchemaNested, SchemaSiblings, SchemaGuest, SchemaComposite} :
     InitWith({s}, {s}, MaxIntroOps, 0) /\ LibIdle

NextIntro ==
  \/ StartIntrospectTable
  \/ StartIntrospectDatabase
  \/ InfoDbReply(TRUE)
  \/ InfoDbReply(FALSE)
  \/ StructureReply(TRUE)
  \/ StructureReply(FALSE)
  \/ RawReply(TRUE)
  \/ RawReply(FALSE)

SpecIntro == InitIntro /\ [][NextIntro]_vars

(***************************************************************************)
(* planDiff over the table permissions a schema and a database can hold,   *)
(* and the compiler over the attributes a field can carry                  *)
(***************************************************************************)
\* TableConfig.permissions values: unset, the blanket values, per-operation maps
PermValues ==
  {NoPerm, Blanket("FULL"), Blanket("NONE")}
  \cup {PermMap(sel, "", upd, del) :
          sel \in {"", "FULL", "where true"}, upd \in {"", "FULL"}, del \in {"", "FULL"}}

SchemaPerms(p) ==
  << Entry("users", [Table(<< Entry("name", Field("string")) >>) EXCEPT !.permissions = p]) >>

PermSchemas == {SchemaPerms(p) : p \in PermValues}

InitPerms == InitWith(PermSchemas, PermSchemas, MaxOps, 0) /\ LibIdle

NextPerms ==
  \/ StartPlanDiff
  \/ InfoReply(TRUE)
  \/ InfoReply(FALSE)

SpecPerms == InitPerms /\ [][NextPerms]_vars

\* a field carrying the chosen attributes, each of the eight present or not
FieldWith(type, attrs) ==
  [Field(type) EXCEPT
     !.references = IF type = "record" THEN "users" ELSE "",
     !.onDelete = IF "reference" \in attrs THEN [k |-> "str", v |-> "CASCADE"] ELSE NoOnDelete,
     !.required = "required" \in attrs,
     !.default = IF "default" \in attrs THEN StrVal("guest") ELSE NoVal,
     !.valueExpr = IF "value" \in attrs THEN "time::now()" ELSE "",
     !.readonly = "readonly" \in attrs,
     !.permissions = IF "permissions" \in attrs THEN PermMap("FULL", "", "NONE", "") ELSE NoPerm,
     !.constraints = IF "constraints" \in attrs
                     THEN << [name |-> "string::is::email", value |-> BoolVal(TRUE)],
                             [name |-> "number::min", value |-> NumVal(1)] >>
                     ELSE <<>>,
     !.literals = IF "literals" \in attrs THEN <<StrVal("guest"), StrVal("Admin")>> ELSE <<>>]

FieldAttributes ==
  {"reference", "required", "default", "value", "readonly", "permissions", "constraints",
   "literals"}

SchemaField(type, attrs) ==
  << Entry("users", Table(<< Entry("name", FieldWith(type, attrs)) >>)) >>

InitFields ==
  InitWith({SchemaField(type, attrs) : type \in {"record", "string"},
                                       attrs \in SUBSET FieldAttributes},
           {}, MaxOps, 0)
  /\ LibIdle

NextFields ==
  \/ StartMigrateV2
  \/ WriteResolves
  \/ WriteRejects

SpecFields == InitFields /\ [][NextFields]_vars

(***************************************************************************)
(* Observations the properties are stated on                               *)
(***************************************************************************)
\* the running or last operation has computed its plan (planDiff, or the
\* planDiff inside applyDiff)
PlanComputed == outcome.op \in {"planDiff", "applyDiff"}

\* a planDiff call has returned and no operation has started since
PlanDiffDone == pc = "idle" /\ outcome.op = "planDiff"

\* every INFO FOR TABLE of the invocation resolved
AllIntrospected == \A i \in DOMAIN infos : infos[i].hasTable

\* the statements of the plan of the i-th table
TableStatements(i) == Statements(Join(tparts[i], <<NL>>))

\* the per-object statements of the plan of the i-th table
ObjectParts(i) == SelectSeq(tparts[i], LAMBDA p : p[1] # "ALTER")

\* the ALTER TABLE statements of the plan of the i-th table
AlterStatements(i) == SelectSeq(tparts[i], LAMBDA p : p[1] = "ALTER")

\* the table attributes the i-th introspection reported
LiveTable(i) == IF infos[i].hasTable THEN infos[i].table ELSE NoTableInfo

\* a query is the introspection query of table tb
IsInfoFor(q, tb) == q.sql = <<"INFO", SP, "FOR", SP, "TABLE", SP, tb>>

\* the names a list of field entries gives to fields, nested ones included
RECURSIVE FieldNames(_, _)
FieldNames(prefix, entries) ==
  UNION { {prefix \o entries[k].name}
          \cup (IF entries[k].cfg.type = "object" /\ entries[k].cfg.hasProperties
                THEN FieldNames(prefix \o entries[k].name \o ".", entries[k].cfg.properties)
                ELSE {})
          \cup (IF entries[k].cfg.type = "array" /\ entries[k].cfg.arrayOf.k = "object"
                THEN FieldNames(prefix \o entries[k].name \o ".*.",
                                entries[k].cfg.arrayOf.properties)
                ELSE {})
          : k \in DOMAIN entries }

\* the names a TableConfig gives to objects of one kind (FIELD, INDEX, EVENT)
DesiredNames(cfg, kind) ==
  CASE kind = "FIELD" -> FieldNames("", cfg.fields)
    [] kind = "INDEX" -> {cfg.indexes[k].name : k \in DOMAIN cfg.indexes}
    [] OTHER -> {cfg.constraints[k].name : k \in DOMAIN cfg.constraints}
                \cup {cfg.triggers[k].name : k \in DOMAIN cfg.triggers}

\* the positions of table tb in the schema
SchemaIndex(tb) == {i \in DOMAIN schema : schema[i].name = tb}

(***************************************************************************)
(* C1                                                                      *)
(***************************************************************************)
\* C1 (idempotence): when the database holds exactly what one migrateV2
\* (generateCreateTableSQL / ensureSchema of every table) of the schema left
\* in a fresh database, and every introspection call resolves, planDiff for
\* that schema returns the empty plan.
C1_Idempotence ==
  (PlanDiffDone /\ AllIntrospected /\ db = Migrated(schema, FreshCatalog, dbFormat))
    => outcome.value = <<>>

(***************************************************************************)
(* C2                                                                      *)
(***************************************************************************)
\* C2 as claimed (first-time creation): for users { email: string, required }
\* with a unique index on email, planned against introspection with empty
\* maps, the plan is a table-create statement, then the field-create
\* statement for email, then the index-create statement.
C2_FirstTimeCreation ==
  (PlanComputed /\ schema = SchemaBasic
   /\ infos[1].fields = EmptyMap /\ infos[1].indexes = EmptyMap /\ infos[1].events = EmptyMap)
    => LET sts == Statements(outcome.value)
       IN /\ Len(sts) = 3
          /\ sts[1][1] = "DEFINE" /\ sts[1][3] = "TABLE" /\ StmtName(sts[1]) = "users"
          /\ sts[2] = FieldDef("users", "email", UsersBasic.fields[1].cfg)
          /\ sts[3] = generateIndexSQL("users", UsersBasic.indexes[1])

\* C2 as the code has it: in that scenario the plan is exactly the
\* field-create statement for email followed by the index-create statement
\* for the unique index; it holds no table-create statement.
C2_FreshPlan ==
  (PlanComputed /\ schema = SchemaBasic
   /\ infos[1].fields = EmptyMap /\ infos[1].indexes = EmptyMap /\ infos[1].events = EmptyMap)
    => Statements(outcome.value)
         = << FieldDef("users", "email", UsersBasic.fields[1].cfg),
              generateIndexSQL("users", UsersBasic.indexes[1]) >>

\* planDiff has returned for that schema on a fresh database: two statements
C2_Witness ==
  /\ PlanDiffDone /\ schema = SchemaBasic /\ db = FreshCatalog
  /\ infos[1].fields = EmptyMap /\ infos[1].indexes = EmptyMap
  /\ Len(Statements(outcome.value)) = 2

(***************************************************************************)
(* C3                                                                      *)
(***************************************************************************)
\* what the three-way rule prescribes for one desired object, given its
\* create statement, whether its name is in the live map, and its live text
ThreeWay(create, present, live) ==
  IF ~present THEN <<create>>
  ELSE IF Normalized(live) = Normalized(OverwriteVariant(create)) THEN <<>>
  ELSE <<OverwriteVariant(create)>>

\* the rule applied to the desired objects of the i-th table, in order
ObjectRule(i) ==
  LET tb == schema[i].name
      cfg == schema[i].cfg
      info == infos[i]
  IN Flatten([k \in DOMAIN cfg.fields |->
                ThreeWay(generateFieldSQL(tb, cfg.fields[k].name, cfg.fields[k].cfg),
                         cfg.fields[k].name \in DOMAIN info.fields,
                         Lookup(info.fields, cfg.fields[k].name))])
     \o Flatten([k \in DOMAIN cfg.indexes |->
                   ThreeWay(generateIndexSQL(tb, cfg.indexes[k]),
                            cfg.indexes[k].name \in DOMAIN info.indexes,
                            Lookup(info.indexes, cfg.indexes[k].name))])
     \o Flatten([k \in DOMAIN cfg.constraints |->
                   ThreeWay(generateConstraintSQL(tb, cfg.constraints[k]),
                            cfg.constraints[k].name \in DOMAIN info.events,
                            Lookup(info.events, cfg.constraints[k].name))])
     \o Flatten([k \in DOMAIN cfg.triggers |->
                   ThreeWay(generateTriggerSQL(tb, cfg.triggers[k]),
                            cfg.triggers[k].name \in DOMAIN info.events,
                            Lookup(info.events, cfg.triggers[k].name))])

NonDestructive(st) ==
  /\ \A k \in DOMAIN st : st[k] # "REMOVE"
  /\ \/ /\ st[1] = "ALTER" /\ st[3] = "TABLE"
        /\ SchemaIndex(st[5]) # {}
     \/ /\ st[1] = "DEFINE" /\ st[3] \in {"FIELD", "INDEX", "EVENT"}
        /\ \E i \in SchemaIndex(StmtTable(st)) : StmtName(st) \in DesiredNames(schema[i].cfg, st[3])

\* the plan text, and every write applyDiff has sent, is non-destructive
PlanTextNonDestructive ==
  /\ PlanComputed =>
       \A k \in DOMAIN Statements(outcome.value) : NonDestructive(Statements(outcome.value)[k])
  /\ op = "applyDiff" =>
       \A q \in DOMAIN rpcLog :
         rpcLog[q].kind = "write" =>
           \A k \in DOMAIN Statements(rpcLog[q].sql) : NonDestructive(Statements(rpcLog[q].sql)[k])

\* a step in which the database executes applyDiff's batch keeps every
\* table outside the schema, and every live object the schema does not name
LiveOnlyUntouched ==
  (op = "applyDiff" /\ pc = "write" /\ extLeft' = extLeft) =>
    \A t \in TableNames :
      IF SchemaIndex(t) = {} THEN db'[t] = db[t]
      ELSE \A i \in SchemaIndex(t) :
             /\ \A n \in DOMAIN db[t].fields \ DesiredNames(schema[i].cfg, "FIELD") :
                  n \in DOMAIN db'[t].fields /\ db'[t].fields[n] = db[t].fields[n]
             /\ \A n \in DOMAIN db[t].indexes \ DesiredNames(schema[i].cfg, "INDEX") :
                  n \in DOMAIN db'[t].indexes /\ db'[t].indexes[n] = db[t].indexes[n]
             /\ \A n \in DOMAIN db[t].events \ DesiredNames(schema[i].cfg, "EVENT") :
                  n \in DOMAIN db'[t].events /\ db'[t].events[n] = db[t].events[n]

\* C4 (non-destructiveness): for any desired schema and live state the plan
\* planDiff returns, and everything applyDiff executes, holds no removal
\* statement and no statement naming a table, field, index or event absent
\* from the desired schema; applying it leaves live-only objects as they were.
C4_NonDestructive == []PlanTextNonDestructive /\ [][LiveOnlyUntouched]_vars

\* applyDiff has executed a plan on a table that holds a field the schema
\* does not name
C4_Witness ==
  /\ outcome.op = "applyDiff" /\ outcome.status = "resolved" /\ dbVersion > v0
  /\ \E i \in DOMAIN schema :
       DOMAIN db[schema[i].name].fields \ DesiredNames(schema[i].cfg, "FIELD") # {}

(***************************************************************************)
(* C5                                                                      *)
(***************************************************************************)
\* C5 (diff minimality): SchemaOld and SchemaGuest differ in the default of
\* users.role only; when the database holds a deployment of SchemaOld and
\* every introspection call resolves, planDiff for SchemaGuest is the one
\* OVERWRITE statement of users.role.
C5_DiffMinimality ==
  (PlanDiffDone /\ AllIntrospected /\ schema = SchemaGuest
   /\ \E style \in {"created", "converged"} : db = Deployed(SchemaOld, style, dbFormat))
    => Statements(outcome.value)
         = << OverwriteVariant(FieldDef("users", "role", UsersFull("guest").fields[2].cfg)) >>

(***************************************************************************)
(* C6                                                                      *)
(***************************************************************************)
\* C6 (table-level alter): for each table, with an unspecified desired or
\* live attribute counting as absent, an ALTER TABLE statement is emitted
\* if and only if schema mode, permissions or comment differ; there is at
\* most one, and it lists exactly the differing aspects.
C6_TableAlter ==
  \A i \in DOMAIN tparts :
    LET cfg == schema[i].cfg
        live == LiveTable(i)
        modeDiffers == cfg.schema # live.schema
        permsDiffer == cfg.permissions # live.permissions
        commentDiffers == \/ cfg.hasComment # live.hasComment
                          \/ (cfg.hasComment /\ cfg.comment # live.comment)
        alters == AlterStatements(i)
    IN /\ Len(alters) <= 1
       /\ (alters # <<>>) <=> (modeDiffers \/ permsDiffer \/ commentDiffers)
       /\ alters # <<>> =>
            /\ (HasToken(alters[1], "SCHEMAFULL") \/ HasToken(alters[1], "SCHEMALESS"))
                 <=> modeDiffers
            /\ HasToken(alters[1], "PERMISSIONS") <=> permsDiffer
            /\ HasToken(alters[1], "COMMENT") <=> commentDiffers

(***************************************************************************)
(* C7                                                                      *)
(***************************************************************************)
\* the analyzers a search index of the model can name
Analyzers == {"english", "simple"}

\* C7 (search-index change detection): for a desired search index whose
\* live definition is what the database stored for the compiled definition
\* of an index with the same name, fields and ranking parameters, planDiff
\* emits exactly the index's OVERWRITE statement when the analyzers differ
\* and no statement for the index when the two are identical.
C7_SearchIndexChange ==
  \A i \in DOMAIN tparts :
    \A k \in DOMAIN schema[i].cfg.indexes :
      LET tb == schema[i].name
          idx == schema[i].cfg.indexes[k]
          forIdx == SelectSeq(tparts[i],
                              LAMBDA p : p[1] = "DEFINE" /\ p[3] = "INDEX"
                                         /\ StmtName(p) = idx.name)
      IN \A a \in Analyzers :
           ( /\ idx.hasSearch
             /\ idx.name \in DOMAIN infos[i].indexes
             /\ infos[i].indexes[idx.name]
                  = StoredText(dbFormat, generateIndexSQL(tb, [idx EXCEPT !.analyzer = a])) )
             => IF a # idx.analyzer
                THEN forIdx = << OverwriteVariant(generateIndexSQL(tb, idx)) >>
                ELSE forIdx = <<>>

(***************************************************************************)
(* C8                                                                      *)
(***************************************************************************)
\* what a part of a table plan is about: the kind and name of its first statement
PartKey(p) ==
  LET st == Statements(p)[1]
  IN IF st[1] = "ALTER" THEN <<"ALTER", st[5]>> ELSE <<st[3], StmtName(st)>>

\* the objects of a table in the order the plan has to follow
DeclaredKeys(tb, cfg) ==
  [k \in DOMAIN cfg.fields |-> <<"FIELD", cfg.fields[k].name>>]
  \o [k \in DOMAIN cfg.indexes |-> <<"INDEX", cfg.indexes[k].name>>]
  \o [k \in DOMAIN cfg.constraints |-> <<"EVENT", cfg.constraints[k].name>>]
  \o [k \in DOMAIN cfg.triggers |-> <<"EVENT", cfg.triggers[k].name>>]
  \o << <<"ALTER", tb>> >>

\* the parts of the i-th table plan follow the declared order, none twice
InDeclaredOrder(i) ==
  LET decl == DeclaredKeys(schema[i].name, schema[i].cfg)
      keys == [k \in DOMAIN tparts[i] |-> PartKey(tparts[i][k])]
      pos(k) == Least({j \in DOMAIN decl : decl[j] = keys[k]})
  IN /\ \A k \in DOMAIN keys : \E j \in DOMAIN decl : decl[j] = keys[k]
     /\ \A k \in 1 .. (Len(keys) - 1) : pos(k) < pos(k + 1)

\* C8 (plan ordering): in a table's plan the field statements come first in
\* declared order, then index, constraint and trigger statements, then the
\* single ALTER TABLE; the database-wide plan is the per-table plans in
\* schema declaration order, the introspection calls being made and
\* answered one at a time in that order.
C8_PlanOrdering ==
  /\ \A i \in DOMAIN tparts : InDeclaredOrder(i)
  /\ \A i \in DOMAIN infos : IsInfoFor(rpcLog[i], schema[i].name)
  /\ pc = "info" => Len(rpcLog) = Len(infos) + 1
  /\ PlanComputed =>
       Statements(outcome.value) = Flatten([i \in DOMAIN tparts |-> TableStatements(i)])

\* a plan over two tables, posts declared first, each table with statements,
\* one of them with object statements followed by an ALTER TABLE
C8_Witness ==
  /\ PlanComputed /\ Len(schema) = 2 /\ schema[1].name = "posts"
  /\ tparts[1] # <<>> /\ tparts[2] # <<>>
  /\ \E i \in DOMAIN tparts :
       Len(tparts[i]) >= 3 /\ tparts[i][Len(tparts[i])][1] = "ALTER"

(***************************************************************************)
(* C9                                                                      *)
(***************************************************************************)
\* everything a planDiff invocation has sent is an introspection query
ReadOnlyLog ==
  op = "planDiff" =>
    \A k \in DOMAIN rpcLog :
      rpcLog[k].sql[1] = "INFO" /\ \A j \in DOMAIN rpcLog[k].sql :
                                     rpcLog[k].sql[j] \notin {"DEFINE", "ALTER", "REMOVE"}

\* the last two plans come from planDiff calls between whose beginning and
\* end the database executed no write
RepeatedPlanDiff ==
  /\ Len(plans) = 2
  /\ plans[1].op = "planDiff" /\ plans[2].op = "planDiff"
  /\ plans[2].from = plans[1].to

\* a step of a planDiff invocation leaves the database as it is
PlanDiffKeepsDb ==
  (op' = "planDiff" /\ extLeft' = extLeft) => (db' = db /\ dbVersion' = dbVersion)

\* C9 as claimed (dry-run safety): planDiff sends only introspection
\* queries, and repeated planDiff calls with no intervening change of the
\* database return the same plan text.
C9_DryRunSafety ==
  /\ ReadOnlyLog
  /\ RepeatedPlanDiff => plans[1].plan = plans[2].plan

\* C9 as the code has it: planDiff sends only introspection queries and its
\* steps leave the database unchanged; repeated planDiff calls with no
\* intervening change return the same plan text when each table's
\* introspection call resolves in both calls or rejects in both.
C9_DryRunRepeatable ==
  /\ [](ReadOnlyLog
        /\ ((RepeatedPlanDiff /\ plans[1].oks = plans[2].oks) => plans[1].plan = plans[2].plan))
  /\ [][PlanDiffKeepsDb]_vars

\* two planDiff calls on an unchanged, deployed database with the same
\* introspection outcomes, returning a plan that is not empty
C9_Witness ==
  /\ RepeatedPlanDiff /\ plans[1].oks = plans[2].oks
  /\ plans[1].plan # <<>> /\ plans[1].plan = plans[2].plan
  /\ \E t \in TableNames : db[t].exists
  /\ dbVersion = 0

(***************************************************************************)
(* C10                                                                     *)
(***************************************************************************)
\* C10 (round trips of apply): an applyDiff invocation on a schema of N
\* tables sends one introspection query per table, in order and one at a
\* time, then at most one write query, which carries the whole plan; it
\* sends no write query when the plan is empty.
C10_ApplyRoundTrips ==
  op = "applyDiff" =>
    /\ \A k \in DOMAIN rpcLog : k <= Len(schema) => IsInfoFor(rpcLog[k], schema[k].name)
    /\ pc = "info" => Len(rpcLog) = Len(infos) + 1
    /\ outcome.op = "applyDiff" =>
         /\ Len(rpcLog) = Len(schema) + (IF outcome.value # <<>> THEN 1 ELSE 0)
         /\ outcome.value # <<>> =>
              /\ rpcLog[Len(rpcLog)].kind = "write"
              /\ rpcLog[Len(rpcLog)].sql = outcome.value

\* applyDiff on two tables has resolved after two introspection queries and
\* one write
C10_Witness ==
  /\ outcome.op = "applyDiff" /\ outcome.status = "resolved"
  /\ Len(schema) = 2 /\ Len(rpcLog) = 3 /\ dbVersion = v0 + 1

(***************************************************************************)
(* C11                                                                     *)
(***************************************************************************)
\* C11 (applied signal): applyDiff resolves with true when the plan was
\* not empty and was executed, and with false when the plan was empty and
\* nothing was executed.
C11_AppliedSignal ==
  (outcome.op = "applyDiff" /\ outcome.status = "resolved")
    => outcome.returns = (IF outcome.value # <<>> THEN "true" ELSE "false")

(***************************************************************************)
(* C12                                                                     *)
(***************************************************************************)
\* C12 (apply failure): when the database rejects the batch of applyDiff,
\* applyDiff rejects with the very error the database answered with, and
\* the rejected batch is the last query of the invocation: one query per
\* table for introspection, the batch, and nothing after it.
C12_ApplyFailure ==
  (outcome.op = "applyDiff" /\ outcome.status = "rejected")
    => /\ outcome.error = outcome.raised
       /\ outcome.error \in DbErrors
       /\ pc = "idle"
       /\ Len(rpcLog) = Len(schema) + 1
       /\ rpcLog[Len(rpcLog)] = WriteQuery(outcome.value)
       /\ \A k \in 1 .. Len(schema) : IsInfoFor(rpcLog[k], schema[k].name)

\* applyDiff has rejected after the database refused a statement of its batch
C12_Witness ==
  /\ outcome.op = "applyDiff" /\ outcome.status = "rejected"
  /\ outcome.raised = "permission denied"
  /\ dbVersion = v0 + 1

(***************************************************************************)
(* C13                                                                     *)
(***************************************************************************)
\* an introspectTable call has settled and no operation has started since
IntrospectTableSettled == pc = "idle" /\ outcome.op = "introspectTable"

\* the TableConfig of an empty result
EmptyTableConfig == [fields |-> <<>>, indexes |-> <<>>, permissions |-> NoPerm]

\* C13 (introspection fallback chain): introspectTable sends the structured
\* query first and the raw-text query only after the structured one failed;
\* when the raw-text query fails as well it returns an empty result; whatever
\* the two queries answer, introspectTable resolves and no error reaches
\* its caller.
C13_FallbackChain ==
  IntrospectTableSettled =>
    /\ rpcLog[1].sql[Len(rpcLog[1].sql)] = "STRUCTURE"
    /\ Len(rpcLog) <= 2
    /\ Len(rpcLog) = 2 => IsInfoFor(rpcLog[2], rpcLog[1].sql[7])
    /\ outcome.status = "resolved"
    /\ outcome.error = "none"
    /\ outcome.raised # "none" =>
         (Len(introspected) = 1 /\ introspected[1].cfg = EmptyTableConfig)

(***************************************************************************)
(* C14                                                                     *)
(***************************************************************************)
\* the create statement of every desired object of the i-th table, in the
\* declared order
AllCreates(i) ==
  LET tb == schema[i].name
      cfg == schema[i].cfg
  IN [k \in DOMAIN cfg.fields |-> generateFieldSQL(tb, cfg.fields[k].name, cfg.fields[k].cfg)]
     \o [k \in DOMAIN cfg.indexes |-> generateIndexSQL(tb, cfg.indexes[k])]
     \o [k \in DOMAIN cfg.constraints |-> generateConstraintSQL(tb, cfg.constraints[k])]
     \o [k \in DOMAIN cfg.triggers |-> generateTriggerSQL(tb, cfg.triggers[k])]

\* C14 (introspection failure policy in the planner): when the INFO FOR
\* TABLE call of a table fails, getInfo returns empty fields, indexes and
\* events maps, and planDiff still returns: the plan of that table holds the
\* create statement of every desired field, index, constraint and trigger,
\* as for objects that are absent.
C14_FailurePolicy ==
  /\ \A i \in DOMAIN tparts :
       ~infos[i].hasTable =>
         /\ infos[i].fields = EmptyMap
         /\ infos[i].indexes = EmptyMap
         /\ infos[i].events = EmptyMap
         /\ ObjectParts(i) = AllCreates(i)
  /\ PlanDiffDone => outcome.status = "resolved" /\ outcome.error = "none"

\* planDiff has returned after the introspection of a table failed whose
\* desired objects all exist in the database
C14_Witness ==
  /\ PlanDiffDone
  /\ \E i \in DOMAIN tparts :
       /\ ~infos[i].hasTable
       /\ FieldNames("", schema[i].cfg.fields) \subseteq DOMAIN db[schema[i].name].fields
       /\ Len(ObjectParts(i)) >= 2

(***************************************************************************)
(* C15                                                                     *)
(***************************************************************************)
\* introspectTable has resolved from a reply with definition texts
ParsedFromText ==
  IntrospectTableSettled /\ outcome.status = "resolved" /\ ~outcome.info.structured

\* the table of the TableConfig returned last, and that TableConfig
LastTable == introspected[Len(introspected)].name

LastConfig == introspected[Len(introspected)].cfg

\* a field of a simple scalar type with no default and no constraints
PlainScalar(cfg) ==
  /\ cfg.type \in ScalarTypes
  /\ cfg.default = NoVal /\ cfg.valueExpr = "" /\ ~cfg.readonly /\ cfg.comment = ""
  /\ cfg.constraints = <<>> /\ cfg.literals = <<>> /\ cfg.permissions = NoPerm

\* C15 (scalar round-trip fidelity): for every field of type string,
\* number, bool or datetime with no default and no constraints, when the
\* definition text introspectTable parses is the text generateFieldSQL
\* compiled for the field, the descriptor it returns for the field has the
\* same type and the same required flag, whether required is true or unset.
C15_ScalarRoundTrip ==
  ParsedFromText =>
    \A i \in SchemaIndex(LastTable) :
      \A k \in DOMAIN schema[i].cfg.fields :
        LET f == schema[i].cfg.fields[k]
        IN (/\ PlainScalar(f.cfg)
            /\ \E j \in DOMAIN outcome.info.fields :
                 outcome.info.fields[j]
                   = [name |-> f.name, sql |-> generateFieldSQL(LastTable, f.name, f.cfg)])
           => /\ PropHas(LastConfig.fields, f.name)
              /\ PropGet(LastConfig.fields, f.name).type = f.cfg.type
              /\ PropGet(LastConfig.fields, f.name).required = f.cfg.required

(***************************************************************************)
(* C16                                                                     *)
(***************************************************************************)
\* the tree of a FieldConfig: its type and, by name, the trees of its
\* properties and of the properties of its array elements
RECURSIVE TreeShape(_)
TreeShape(cfg) ==
  [ type |-> cfg.type,
    properties |-> {<<cfg.properties[k].name, TreeShape(cfg.properties[k].cfg)>> :
                      k \in DOMAIN cfg.properties},
    arrayOf |-> cfg.arrayOf.k,
    element |-> {<<cfg.arrayOf.properties[k].name, TreeShape(cfg.arrayOf.properties[k].cfg)>> :
                   k \in DOMAIN cfg.arrayOf.properties} ]

\* the paths generateFieldSQL emits for the fields of the i-th table, in the
\* order of the statements
EmittedPaths(i) ==
  LET cfg == schema[i].cfg
      sts == Statements(Join([k \in DOMAIN cfg.fields |->
                                generateFieldSQL(schema[i].name, cfg.fields[k].name,
                                                 cfg.fields[k].cfg)], <<NL>>))
  IN [k \in DOMAIN sts |-> StmtName(sts[k])]

\* the paths of the reply the last TableConfig was made from, as they arrived
ArrivedPaths == [k \in DOMAIN outcome.info.fields |-> outcome.info.fields[k].name]

\* a field with nested properties: an object, or an array of objects
IsContainer(cfg) ==
  \/ cfg.type = "object" /\ cfg.hasProperties
  \/ cfg.type = "array" /\ cfg.arrayOf.k = "object"

\* C16 (nested round-trip): when the paths introspectTable reconstructs from
\* are the paths generateFieldSQL emitted for the fields of the table, in the
\* order it emitted them, every field with nested properties comes back with
\* the same tree: an object with two levels of properties as object ->
\* object -> scalar under the same names, an array of objects metrics with
\* the property score: number as an array whose element has exactly the one
\* property score, of type number.
C16_NestedRoundTrip ==
  (IntrospectTableSettled /\ outcome.status = "resolved") =>
    \A i \in SchemaIndex(LastTable) :
      ArrivedPaths = EmittedPaths(i) =>
        \A k \in DOMAIN schema[i].cfg.fields :
          LET f == schema[i].cfg.fields[k]
          IN IsContainer(f.cfg) =>
               /\ PropHas(LastConfig.fields, f.name)
               /\ TreeShape(PropGet(LastConfig.fields, f.name)) = TreeShape(f.cfg)

\* introspectTable has rebuilt profile -> addr -> street and the array
\* metrics with its one element property score from the six emitted paths
C16_Witness ==
  /\ IntrospectTableSettled /\ outcome.status = "resolved"
  /\ schema = SchemaNested
  /\ ArrivedPaths = <<"profile", "profile.addr", "profile.addr.street", "profile.city",
                      "metrics", "metrics.*.score">>
  /\ LET profile == PropGet(LastConfig.fields, "profile")
         metrics == PropGet(LastConfig.fields, "metrics")
     IN /\ PropGet(PropGet(profile.properties, "addr").properties, "street").type = "string"
        /\ metrics.type = "array"
        /\ Len(metrics.arrayOf.properties) = 1
        /\ metrics.arrayOf.properties[1].name = "score"
        /\ metrics.arrayOf.properties[1].cfg.type = "number"

(***************************************************************************)
(* C17                                                                     *)
(***************************************************************************)
\* the TableConfig introspectTable returns when the entries of the reply
\* arrive in another order
Reordered(order) ==
  TableConfigOf([outcome.info EXCEPT !.fields = [k \in DOMAIN order |-> @[order[k]]]])

\* the trees of a fields map, by name
FieldTrees(fields) == {<<fields[k].name, TreeShape(fields[k].cfg)>> : k \in DOMAIN fields}

\* C17 (order independence): whatever the order in which the entries of the
\* raw field map arrive (container definitions and leaf paths alike),
\* reconstruction yields the same FieldDescriptor tree: a container is
\* created on first reference and a later path adds to it instead of
\* replacing it.
C17_OrderIndependence ==
  (IntrospectTableSettled /\ outcome.status = "resolved") =>
    \A order \in Orders(DOMAIN outcome.info.fields) :
      FieldTrees(Reordered(order).fields) = FieldTrees(LastConfig.fields)

(***************************************************************************)
(* C18                                                                     *)
(***************************************************************************)
\* position i of a definition text is the content of a string literal
InLiteral(s, i) == 1 < i /\ i < Len(s) /\ s[i - 1] = "\"" /\ s[i + 1] = "\""

\* a definition text up to what does not change behaviour: spacing, and the
\* letter case of everything but the content of its string literals
Behaviour(s) ==
  LET t == Trim(CollapseSpace(s))
  IN [i \in DOMAIN t |-> IF InLiteral(t, i) THEN t[i] ELSE Lower(t[i])]

\* C18 (the Normalizer errs only toward 'different'): whenever the live
\* definition of a desired field differs from the desired definition in a way
\* that changes behaviour, such as a string-literal default that differs in
\* letter case, the plan of the table holds the OVERWRITE statement of the
\* field.
C18_NormalizerSafety ==
  \A i \in DOMAIN tparts :
    \A k \in DOMAIN schema[i].cfg.fields :
      LET f == schema[i].cfg.fields[k]
          want == OverwriteVariant(generateFieldSQL(schema[i].name, f.name, f.cfg))
      IN (/\ f.name \in DOMAIN infos[i].fields
          /\ Behaviour(infos[i].fields[f.name]) # Behaviour(want))
         => \E j \in DOMAIN tparts[i] : tparts[i][j] = want

(***************************************************************************)
(* C19                                                                     *)
(***************************************************************************)
\* the permissions the schema asks for the i-th table, and the permissions
\* its introspection reported
DesiredPerms(i) == schema[i].cfg.permissions

LivePerms(i) == LiveTable(i).permissions

\* the four slots of two per-operation maps are pairwise equal
SlotsEqual(a, b) ==
  a.select = b.select /\ a.create = b.create /\ a.update = b.update /\ a.delete = b.delete

\* the plan of the i-th table changes the table's permissions
AltersPermissions(i) ==
  \E j \in DOMAIN AlterStatements(i) : HasToken(AlterStatements(i)[j], "PERMISSIONS")

ClauseAt(st, i) ==
  CASE st[i] = "TYPE" -> "type"
    [] st[i] = "REFERENCE" -> "reference"
    [] st[i] = "DEFAULT" -> "default"
    [] st[i] = "VALUE" -> "value"
    [] st[i] = "READONLY" -> "readonly"
    [] st[i] = "PERMISSIONS" -> "permissions"
    [] st[i] = "ASSERT" ->
         (IF MatchAt(st, <<"ASSERT", SP, "$value", SP, "!=", SP, "NONE">>, i) THEN "required"
          ELSE IF MatchAt(st, <<"ASSERT", SP, "$value", SP, "IN", SP>>, i) THEN "literals"
          ELSE "constraints")
    [] OTHER -> ""

\* the clauses of a field statement in the order they appear
Clauses(st) ==
  LET starts == SelectSeq([i \in DOMAIN st |-> i], LAMBDA i : ClauseAt(st, i) # "")
  IN [k \in DOMAIN starts |-> ClauseAt(st, starts[k])]

\* the place of a clause in the fixed order
ClauseRank(c) ==
  CASE c = "type" -> 1
    [] c = "reference" -> 2
    [] c = "required" -> 3
    [] c = "default" -> 4
    [] c = "value" -> 5
    [] c = "readonly" -> 6
    [] c = "permissions" -> 7
    [] c = "constraints" -> 8
    [] c = "literals" -> 9

\* the clauses the attributes of a FieldConfig call for
ClausesOf(cfg) ==
  {"type"}
  \cup (IF cfg.type = "record" /\ cfg.onDelete # NoOnDelete THEN {"reference"} ELSE {})
  \cup (IF cfg.required THEN {"required"} ELSE {})
  \cup (IF cfg.default # NoVal THEN {"default"} ELSE {})
  \cup (IF cfg.valueExpr # "" THEN {"value"} ELSE {})
  \cup (IF cfg.readonly THEN {"readonly"} ELSE {})
  \cup (IF cfg.permissions # NoPerm THEN {"permissions"} ELSE {})
  \cup (IF cfg.constraints # <<>> THEN {"constraints"} ELSE {})
  \cup (IF cfg.literals # <<>> THEN {"literals"} ELSE {})

\* the field statements of the batch migrateV2 sent for the first table
CompiledFields ==
  SelectSeq(Statements(rpcLog[1].sql), LAMBDA st : st[1] = "DEFINE" /\ st[3] = "FIELD")

\* C20 (fixed clause order): whatever attributes a field carries, its
\* compiled statement holds a clause for each attribute present and places
\* them in the order type, reference delete policy, required assertion,
\* default, computed expression, read-only, permissions, constraint
\* assertions, literal assertion: no clause comes before one that precedes
\* it in this list.
C20_ClauseOrder ==
  (op = "migrateV2" /\ Len(rpcLog) >= 1) =>
    /\ Len(CompiledFields) = Len(schema[1].cfg.fields)
    /\ \A k \in DOMAIN CompiledFields :
         LET cs == Clauses(CompiledFields[k])
         IN /\ {cs[j] : j \in DOMAIN cs} = ClausesOf(schema[1].cfg.fields[k].cfg)
            /\ \A j \in 1 .. (Len(cs) - 1) :
                 \/ ClauseRank(cs[j]) < ClauseRank(cs[j + 1])
                 \/ cs[j] = "constraints" /\ cs[j + 1] = "constraints"

\* migrateV2 has sent the statement of a field that carries all nine clauses
C20_Witness ==
  /\ op = "migrateV2" /\ Len(rpcLog) >= 1
  /\ schema = SchemaField("record", FieldAttributes)
  /\ Len(CompiledFields) = 1
  /\ Len(Clauses(CompiledFields[1])) = 10

(***************************************************************************)
(* run-migrate: planDestructive and the plan action of main                *)
(***************************************************************************)
\* the droppables pushed for the names of one info map that the desired
\* names lack
Droppables(kind, t, live, desired) ==
  {[kind |-> kind, table |-> t, name |-> n] : n \in live \ desired}

\* the loop body comparing field names only
TableDroppablesFieldsOnly(t, info) ==
  IF SchemaIndex(t) = {} THEN {}
  ELSE LET sTable == schema[CHOOSE i \in SchemaIndex(t) : TRUE].cfg
       IN Droppables("field", t, DOMAIN info.fields,
                     {sTable.fields[k].name : k \in DOMAIN sTable.fields})

\* the fields / indexes / events loop body of planDestructive for live
\* table t: nothing when the schema lacks the table (continue), else the
\* info names missing from Object.keys(sTable.fields), sIndexes and sEvents
TableDroppables(t, info) ==
  IF SchemaIndex(t) = {} THEN {}
  ELSE LET sTable == schema[CHOOSE i \in SchemaIndex(t) : TRUE].cfg
       IN Droppables("field", t, DOMAIN info.fields,
                     {sTable.fields[k].name : k \in DOMAIN sTable.fields})
          \cup Droppables("index", t, DOMAIN info.indexes, DesiredNames(sTable, "INDEX"))
          \cup Droppables("event", t, DOMAIN info.events, DesiredNames(sTable, "EVENT"))

\* planDestructive(rpc, schema) up to its await of INFO FOR DB
StartPlanDestructive ==
  /\ Begin("planDestructive", [kind |-> "info", sql |-> <<"INFO", SP, "FOR", SP, "DB">>])
  /\ pc' = "livedb"

\* an awaited rpc.query of planDestructive rejects: there is no try/catch,
\* planDestructive rejects with the same error
DestructiveRejects ==
  /\ pc' = "idle"
  /\ \E e \in DbErrors :
       outcome' = [outcome EXCEPT !.op = op, !.status = "rejected", !.raised = e, !.error = e]
  /\ UNCHANGED <<ti, rpcLog, liveTables, droppables>>

\* INFO FOR DB settles: the live tables the schema lacks are pushed, then
\* INFO FOR TABLE is sent for the first live table
LiveDbReply(ok) ==
  /\ pc = "livedb"
  /\ IF ok
     THEN \E order \in Orders({t \in DOMAIN db : db[t].exists}) :
            /\ liveTables' = order
            /\ droppables' = {[kind |-> "table", table |-> order[k], name |-> ""] :
                                 k \in {j \in DOMAIN order : SchemaIndex(order[j]) = {}}}
            /\ IF order = <<>>
               THEN /\ pc' = "idle"
                    /\ outcome' = [NoOutcome EXCEPT !.op = op, !.status = "resolved",
                                                    !.returns = "droppables"]
                    /\ UNCHANGED rpcLog
               ELSE /\ pc' = "livetable"
                    /\ rpcLog' = Append(rpcLog, InfoQuery(order[1]))
                    /\ UNCHANGED outcome
            /\ UNCHANGED ti
     ELSE DestructiveRejects
  /\ UNCHANGED <<schema, db, dbFormat, dbVersion, v0, op, chunks, infos, tparts, plans,
                 opsLeft, extLeft, dbTables, introspected>>
  /\ UNCHANGED libVars

\* INFO FOR TABLE t settles: the loop body runs for t and the next live
\* table is asked about, or planDestructive returns droppables
LiveTableReply(ok) ==
  /\ pc = "livetable"
  /\ IF ok
     THEN /\ droppables' = droppables
                           \cup TableDroppables(liveTables[ti], InfoPayload(db[liveTables[ti]]))
          /\ IF ti < Len(liveTables)
             THEN /\ ti' = ti + 1
                  /\ rpcLog' = Append(rpcLog, InfoQuery(liveTables[ti + 1]))
                  /\ pc' = "livetable"
                  /\ UNCHANGED outcome
             ELSE /\ pc' = "idle"
                  /\ outcome' = [NoOutcome EXCEPT !.op = op, !.status = "resolved",
                                                  !.returns = "droppables"]
                  /\ UNCHANGED <<ti, rpcLog>>
          /\ UNCHANGED liveTables
     ELSE DestructiveRejects
  /\ UNCHANGED <<schema, db, dbFormat, dbVersion, v0, op, chunks, infos, tparts, plans,
                 opsLeft, extLeft, dbTables, introspected>>
  /\ UNCHANGED libVars

\* the operations of one run of main with action plan and --destructive
MaxPlanOps == 2

\* the schema file names one of four schemas; the database holds what an
\* earlier deployment of another schema left
InitPlan ==
  /\ InitWith({SchemaBasic, SchemaGuest, SchemaNested, SchemaLeaf},
              {SchemaGuest, SchemaNested},
              MaxPlanOps, 0)
  /\ LibIdle

\* main, action plan: orm.planDiff(), then planDestructive(rpc, schema)
NextPlan ==
  \/ StartPlanDiff
  \/ InfoReply(TRUE)
  \/ InfoReply(FALSE)
  \/ StartPlanDestructive
  \/ LiveDbReply(TRUE)
  \/ LiveDbReply(FALSE)
  \/ LiveTableReply(TRUE)
  \/ LiveTableReply(FALSE)

SpecPlan == InitPlan /\ [][NextPlan]_vars

(***************************************************************************)
(* C21                                                                     *)
(***************************************************************************)
PlanDestructiveDone == op = "planDestructive" /\ pc = "idle" /\ outcome.status = "resolved"

\* the live definitions of the given tables, as (kind, table, name), whose
\* name the desired schema does not define
AbsentMembers(tables) ==
  {x \in [kind : {"field", "index", "event"}, table : tables,
          name : UNION {DOMAIN db[tb].fields \cup DOMAIN db[tb].indexes
                        \cup DOMAIN db[tb].events : tb \in tables}] :
     LET member == CASE x.kind = "field" -> "fields"
                     [] x.kind = "index" -> "indexes"
                     [] OTHER -> "events"
         word == CASE x.kind = "field" -> "FIELD"
                   [] x.kind = "index" -> "INDEX"
                   [] OTHER -> "EVENT"
     IN /\ x.name \in DOMAIN db[x.table][member]
        /\ \A i \in SchemaIndex(x.table) : x.name \notin DesiredNames(schema[i].cfg, word)}

\* the live tables the desired schema does not define
AbsentTables ==
  {[kind |-> "table", table |-> t, name |-> ""] :
     t \in {tb \in DOMAIN db : db[tb].exists /\ SchemaIndex(tb) = {}}}

\* every query sent by planDiff or planDestructive is an INFO query, and the
\* database has executed no write
OnlyIntrospection ==
  /\ \A k \in DOMAIN rpcLog : rpcLog[k].sql[1] = "INFO"
  /\ dbVersion = 0

\* C21 (destructive report only reports), as stated: when planDestructive
\* returns, its list holds every live table, field, index and event whose
\* name the desired schema lacks, and the plan action has sent only
\* introspection queries and executed nothing.
C21_AsStated ==
  /\ OnlyIntrospection
  /\ PlanDestructiveDone =>
       (AbsentTables \cup AbsentMembers({t \in DOMAIN db : db[t].exists})) \subseteq droppables

\* C21 (destructive report only reports), amended: when planDestructive
\* returns, its list holds every live table the desired schema lacks and,
\* for each live table the desired schema defines, every field, index and
\* event of it whose name the desired table lacks; the plan action has sent
\* only introspection queries and executed nothing.
C21_ReportOnly ==
  /\ OnlyIntrospection
  /\ PlanDestructiveDone =>
       (AbsentTables \cup AbsentMembers({t \in DOMAIN db : db[t].exists /\ SchemaIndex(t) # {}}))
         \subseteq droppables

\* a report that lists a table, a field, an index and an event
C21_Witness ==
  /\ PlanDestructiveDone
  /\ \A kind \in {"table", "field", "index", "event"} : \E d \in droppables : d.kind = kind

(***************************************************************************)
(* C26                                                                     *)
(***************************************************************************)
\* C26 (no false removal candidates): when planDestructive returns, no
\* listed table is a table of the desired schema and no listed field, index
\* or event is one the desired table defines, the nested leaf paths the
\* compiler emits included; for a database created by compiling the desired
\* schema the list is empty.
C26_NoFalseCandidates ==
  PlanDestructiveDone =>
    /\ \A d \in droppables :
         /\ d.kind = "table" => SchemaIndex(d.table) = {}
         /\ d.kind # "table" =>
              \A i \in SchemaIndex(d.table) :
                d.name \notin DesiredNames(schema[i].cfg,
                                           CASE d.kind = "field" -> "FIELD"
                                             [] d.kind = "index" -> "INDEX"
                                             [] OTHER -> "EVENT")
    /\ db = Migrated(schema, FreshCatalog, dbFormat) => droppables = {}

(***************************************************************************)
(* MemoryCache (src/src/cache/index.ts).  The value of an entry plays no   *)
(* part in what is stored or evicted and is left out of the items.         *)
(***************************************************************************)
\* the keys the callers use
CacheKeys == {"key1", "key2", "key3"}

\* cache operations called in one behaviour of SpecCache
MaxCacheOps == 4

\* the latest value Date.now() takes in one behaviour
MaxNow == 2

\* this.cache.has(key)
Has(c, key) == \E i \in DOMAIN c : c[i].key = key

\* this.cache.get(key), for a key the Map has
Item(c, key) == c[CHOOSE i \in DOMAIN c : c[i].key = key]

\* this.cache.delete(key)
MapDelete(c, key) == SelectSeq(c, LAMBDA e : e.key # key)

\* this.cache.set(key, item): a key the Map has keeps its place
MapSet(c, key, item) ==
  IF Has(c, key) THEN [i \in DOMAIN c |-> IF c[i].key = key THEN item ELSE c[i]]
  ELSE Append(c, item)

\* item.expiresAt && Date.now() > item.expiresAt
Expired(item, t) == item.expiresAt # 0 /\ t > item.expiresAt

\* removeFromAccessOrder(key)
removeFromAccessOrder(order, key) == SelectSeq(order, LAMBDA k : k # key)

\* updateAccessOrder pushing the key without removing its earlier place
updateAccessOrderKeepsPlace(order, key, strategy) ==
  IF strategy # "LRU" THEN order
  ELSE IF \E i \in DOMAIN order : order[i] = key THEN order ELSE Append(order, key)

\* updateAccessOrder(key)
updateAccessOrder(order, key, strategy) ==
  IF strategy # "LRU" THEN order ELSE Append(removeFromAccessOrder(order, key), key)

\* the first entry, in the Map's order, with the least value of a member
\* (forEach with a strict <)
FirstLeast(c, member) ==
  c[Least({i \in DOMAIN c : \A j \in DOMAIN c : c[i][member] <= c[j][member]})].key

\* evict(): keyToEvict for a cache that is not empty
keyToEvict(c, order, strategy) ==
  CASE strategy = "LRU" ->
         LET stored == {i \in DOMAIN order : Has(c, order[i])}
         IN IF stored # {} THEN order[Least(stored)] ELSE c[1].key
    [] strategy = "LFU" -> FirstLeast(c, "accessCount")
    [] OTHER -> FirstLeast(c, "createdAt")

\* a cache operation is called
CacheCall ==
  /\ cacheOpsLeft > 0
  /\ cacheOpsLeft' = cacheOpsLeft - 1

\* set(key, value) from its call to its return or, on a full cache without
\* the key, to its suspension at `await this.evict()`: evict() has chosen
\* its key and delete(keyToEvict) has run
CacheSet(key) ==
  /\ CacheCall
  /\ LET item == [key |-> key, expiresAt |-> now + config.defaultTTL, accessCount |-> 1,
                  lastAccessed |-> now, createdAt |-> now]
     IN IF Len(cache) >= config.maxSize /\ ~Has(cache, key)
        THEN /\ settings' = Append(settings, item)
             /\ IF cache = <<>>
                THEN UNCHANGED <<cache, accessOrder>>
                ELSE LET k == keyToEvict(cache, accessOrder, config.strategy)
                     IN /\ cache' = MapDelete(cache, k)
                        /\ accessOrder' = removeFromAccessOrder(accessOrder, k)
             /\ UNCHANGED touches
        ELSE /\ cache' = MapSet(cache, key, item)
             /\ accessOrder' = updateAccessOrder(accessOrder, key, config.strategy)
             /\ touches' = Append(touches, [op |-> "set", key |-> key])
             /\ UNCHANGED settings
  /\ UNCHANGED <<config, now, besidesCache>>

\* the set suspended first resumes after its evict(): this.cache.set(key,
\* item) and updateAccessOrder(key)
SetResumes ==
  /\ settings # <<>>
  /\ settings' = Tail(settings)
  /\ cache' = MapSet(cache, Head(settings).key, Head(settings))
  /\ accessOrder' = updateAccessOrder(accessOrder, Head(settings).key, config.strategy)
  /\ touches' = Append(touches, [op |-> "set", key |-> Head(settings).key])
  /\ UNCHANGED <<config, now, cacheOpsLeft, besidesCache>>

\* get(key): a miss, an expired item deleted, or a hit that counts the
\* access and moves the key to the end of accessOrder
CacheGet(key) ==
  /\ CacheCall
  /\ IF ~Has(cache, key)
     THEN UNCHANGED <<cache, accessOrder, touches>>
     ELSE IF Expired(Item(cache, key), now)
     THEN /\ cache' = MapDelete(cache, key)
          /\ accessOrder' = removeFromAccessOrder(accessOrder, key)
          /\ UNCHANGED touches
     ELSE /\ cache' = MapSet(cache, key, [Item(cache, key) EXCEPT !.accessCount = @ + 1,
                                                                 !.lastAccessed = now])
          /\ accessOrder' = updateAccessOrder(accessOrder, key, config.strategy)
          /\ touches' = Append(touches, [op |-> "get", key |-> key])
  /\ UNCHANGED <<config, now, settings, besidesCache>>

\* delete(key)
CacheDelete(key) ==
  /\ CacheCall
  /\ cache' = MapDelete(cache, key)
  /\ accessOrder' = removeFromAccessOrder(accessOrder, key)
  /\ UNCHANGED <<config, now, settings, touches, besidesCache>>

\* clear()
CacheClear ==
  /\ CacheCall
  /\ cache' = <<>>
  /\ accessOrder' = <<>>
  /\ UNCHANGED <<config, now, settings, touches, besidesCache>>

\* the interval timer of the constructor fires: cleanup() deletes the
\* expired items
Cleanup ==
  /\ \E i \in DOMAIN cache : Expired(cache[i], now)
  /\ cache' = SelectSeq(cache, LAMBDA e : ~Expired(e, now))
  /\ accessOrder' = SelectSeq(accessOrder,
                              LAMBDA k : \E i \in DOMAIN cache' : cache'[i].key = k)
  /\ UNCHANGED <<config, now, settings, touches, cacheOpsLeft, besidesCache>>

\* time passes
Tick ==
  /\ now < MaxNow
  /\ now' = now + 1
  /\ UNCHANGED <<cache, accessOrder, config, settings, touches, cacheOpsLeft, besidesCache>>

\* new MemoryCache({ maxSize, strategy, defaultTTL })
InitCache ==
  /\ OrmIdle
  /\ cache = <<>>
  /\ accessOrder = <<>>
  /\ config \in [maxSize : {1, 2}, strategy : {"LRU", "LFU", "FIFO"}, defaultTTL : {1}]
  /\ now = 0
  /\ settings = <<>>
  /\ touches = <<>>
  /\ cacheOpsLeft = MaxCacheOps
  /\ PoolIdle
  /\ ConnIdle
  /\ MigIdle

NextCache ==
  \/ \E key \in CacheKeys : CacheSet(key)
  \/ SetResumes
  \/ \E key \in CacheKeys : CacheGet(key)
  \/ \E key \in CacheKeys : CacheDelete(key)
  \/ CacheClear
  \/ Cleanup
  \/ Tick

SpecCache == InitCache /\ [][NextCache]_vars

(***************************************************************************)
(* C22                                                                     *)
(***************************************************************************)
\* C22 (MemoryCache respects its size limit): the number of stored entries
\* never exceeds maxSize, whatever set, get, delete and clear calls were
\* made, a set started before the previous one has returned included.
C22_SizeLimit == Len(cache) <= config.maxSize

(***************************************************************************)
(* C23                                                                     *)
(***************************************************************************)
\* when key was last read with a hit or stored, as a position of touches
LastTouch(key) ==
  LET at == {i \in DOMAIN touches : touches[i].key = key}
  IN IF at = {} THEN 0 ELSE CHOOSE i \in at : \A j \in at : j <= i

\* C23 (LRU eviction order): with strategy LRU, in every step in which a
\* set of a new key finds the cache full and evicts, the entry that leaves
\* the cache is the stored entry whose latest get or set is the oldest: no
\* entry is evicted while an entry touched less recently is stored.
C23_LRUOrder ==
  [][(config.strategy = "LRU" /\ Len(settings') > Len(settings))
       => \A i, j \in DOMAIN cache :
            ~Has(cache', cache[i].key) => LastTouch(cache[i].key) <= LastTouch(cache[j].key)]_vars

\* the first set, key2, was evicted although key1 was set before it: key1
\* had been read since
C23_Witness ==
  /\ config.strategy = "LRU"
  /\ config.maxSize = 2
  /\ touches = <<[op |-> "set", key |-> "key1"], [op |-> "set", key |-> "key2"],
                 [op |-> "get", key |-> "key1"]>>
  /\ Len(settings) = 1
  /\ Has(cache, "key1")
  /\ ~Has(cache, "key2")

(***************************************************************************)
(* ConnectionPool (src/src/migrations/migration-manager.ts): acquire,      *)
(* release and initialize with createConnection, waitForConnection and     *)
(* processWaitingQueue, one action per suspension point.                   *)
(***************************************************************************)
\* acquire calls made in one behaviour of SpecPool
MaxPoolOps == 3

\* connections the network drops in one behaviour of SpecPool
MaxLost == 1

\* this.connections.find((conn) => !conn.inUse && conn.connection.isConnected())
Available(conns) == {i \in DOMAIN conns : ~conns[i].inUse /\ conns[i].connected}

\* the pooled connection of ConnectionManager id marked as in use
MarkInUse(conns, id) ==
  [i \in DOMAIN conns |-> IF conns[i].id = id THEN [conns[i] EXCEPT !.inUse = TRUE] ELSE conns[i]]

\* processWaitingQueue(): the oldest waiting request is given the first
\* free connection, marked as in use
processWaitingQueue(conns, queue, acq) ==
  IF queue = <<>> \/ Available(conns) = {}
  THEN [connections |-> conns, waitingQueue |-> queue, acquirers |-> acq]
  ELSE LET c == conns[Least(Available(conns))]
       IN [connections |-> MarkInUse(conns, c.id),
           waitingQueue |-> Tail(queue),
           acquirers |-> [acq EXCEPT ![Head(queue)] = [pc |-> "handed", conn |-> c.id]]]

\* acquire() from its call to its return with a free connection, or to its
\* suspension in createConnection (await connection.connect()) or in
\* waitForConnection
Acquire(a) ==
  /\ acquirers[a] = NotAcquiring
  /\ poolOpsLeft > 0
  /\ poolOpsLeft' = poolOpsLeft - 1
  /\ IF Available(connections) # {}
     THEN LET c == connections[Least(Available(connections))]
          IN /\ connections' = MarkInUse(connections, c.id)
             /\ acquirers' = [acquirers EXCEPT ![a] = [pc |-> "holding", conn |-> c.id]]
             /\ UNCHANGED <<waitingQueue, managers>>
     ELSE IF Len(connections) < poolConfig.maxConnections
     THEN /\ managers' = managers + 1
          /\ acquirers' = [acquirers EXCEPT ![a] = [pc |-> "connecting", conn |-> managers']]
          /\ UNCHANGED <<connections, waitingQueue>>
     ELSE /\ waitingQueue' = Append(waitingQueue, a)
          /\ acquirers' = [acquirers EXCEPT ![a].pc = "waiting"]
          /\ UNCHANGED <<connections, managers>>
  /\ UNCHANGED <<poolConfig, initializing, lostLeft, besidesPool>>

\* connection.connect() of an acquire's createConnection settles, the
\* promise taken as one that can resolve or reject: the pooled connection is
\* pushed, not in use, and returned to acquire; or createConnection and
\* acquire throw
ConnectSettles(a, ok) ==
  /\ acquirers[a].pc = "connecting"
  /\ IF ok
     THEN /\ connections' = Append(connections, [id |-> acquirers[a].conn, inUse |-> FALSE,
                                                 connected |-> TRUE])
          /\ acquirers' = [acquirers EXCEPT ![a].pc = "created"]
     ELSE /\ acquirers' = [acquirers EXCEPT ![a] = NotAcquiring]
          /\ UNCHANGED connections
  /\ UNCHANGED <<waitingQueue, poolConfig, managers, initializing, lostLeft, poolOpsLeft,
                 besidesPool>>

\* acquire resumes with the pooled connection that createConnection or
\* waitForConnection resolved with: it marks it as in use and returns it
AcquireResumes(a) ==
  /\ acquirers[a].pc \in {"created", "handed"}
  /\ connections' = MarkInUse(connections, acquirers[a].conn)
  /\ acquirers' = [acquirers EXCEPT ![a].pc = "holding"]
  /\ UNCHANGED <<waitingQueue, poolConfig, managers, initializing, lostLeft, poolOpsLeft,
                 besidesPool>>

\* the acquireTimeout of a waiting request fires: it leaves the queue and
\* acquire throws
AcquireTimesOut(a) ==
  /\ acquirers[a].pc = "waiting"
  /\ waitingQueue' = SelectSeq(waitingQueue, LAMBDA w : w # a)
  /\ acquirers' = [acquirers EXCEPT ![a] = NotAcquiring]
  /\ UNCHANGED <<connections, poolConfig, managers, initializing, lostLeft, poolOpsLeft,
                 besidesPool>>

\* release(connection) by the caller that acquire returned it to: an
\* unknown connection is ignored, one that is not connected is removed,
\* any other is freed and processWaitingQueue runs
Release(a) ==
  /\ acquirers[a].pc = "holding"
  /\ LET at == {i \in DOMAIN connections : connections[i].id = acquirers[a].conn}
         freed == [i \in DOMAIN connections |->
                     IF i \in at THEN [connections[i] EXCEPT !.inUse = FALSE]
                     ELSE connections[i]]
         after == processWaitingQueue(freed, waitingQueue,
                                      [acquirers EXCEPT ![a] = NotAcquiring])
     IN IF at = {}
        THEN /\ acquirers' = [acquirers EXCEPT ![a] = NotAcquiring]
             /\ UNCHANGED <<connections, waitingQueue>>
        ELSE IF \E i \in at : ~connections[i].connected
        THEN /\ connections' = SelectSeq(connections, LAMBDA c : c.id # acquirers[a].conn)
             /\ acquirers' = [acquirers EXCEPT ![a] = NotAcquiring]
             /\ UNCHANGED waitingQueue
        ELSE /\ connections' = after.connections
             /\ waitingQueue' = after.waitingQueue
             /\ acquirers' = after.acquirers
  /\ UNCHANGED <<poolConfig, managers, initializing, lostLeft, poolOpsLeft, besidesPool>>

\* connection.connect() of a createConnection of initialize() settles: the
\* connection is pushed and the loop goes on, or initialize gives up
InitializeSettles(ok) ==
  /\ initializing > 0
  /\ IF ok
     THEN /\ managers' = managers + 1
          /\ connections' = Append(connections, [id |-> managers', inUse |-> FALSE,
                                                 connected |-> TRUE])
          /\ initializing' = initializing - 1
     ELSE /\ initializing' = 0
          /\ UNCHANGED <<connections, managers>>
  /\ UNCHANGED <<waitingQueue, poolConfig, acquirers, lostLeft, poolOpsLeft, besidesPool>>

\* the socket of a pooled connection closes: isConnected() is false from now on
ConnectionLost ==
  /\ lostLeft > 0
  /\ lostLeft' = lostLeft - 1
  /\ \E i \in DOMAIN connections :
       /\ connections[i].connected
       /\ connections' = [connections EXCEPT ![i].connected = FALSE]
  /\ UNCHANGED <<waitingQueue, poolConfig, acquirers, managers, initializing, poolOpsLeft,
                 besidesPool>>

\* new ConnectionPool({ minConnections, maxConnections }): initialize() is
\* suspended in its first createConnection
InitPool ==
  /\ OrmIdle
  /\ CacheIdle
  /\ ConnIdle
  /\ MigIdle
  /\ connections = <<>>
  /\ waitingQueue = <<>>
  /\ poolConfig \in [minConnections : {0, 1}, maxConnections : {1, 2}]
  /\ acquirers = [a \in Acquirers |-> NotAcquiring]
  /\ managers = 0
  /\ initializing = poolConfig.minConnections
  /\ lostLeft = MaxLost
  /\ poolOpsLeft = MaxPoolOps

NextPool ==
  \/ \E a \in Acquirers : Acquire(a)
  \/ \E a \in Acquirers : ConnectSettles(a, TRUE)
  \/ \E a \in Acquirers : ConnectSettles(a, FALSE)
  \/ \E a \in Acquirers : AcquireResumes(a)
  \/ \E a \in Acquirers : AcquireTimesOut(a)
  \/ \E a \in Acquirers : Release(a)
  \/ InitializeSettles(TRUE)
  \/ InitializeSettles(FALSE)
  \/ ConnectionLost

SpecPool == InitPool /\ [][NextPool]_vars

(***************************************************************************)
(* C27                                                                     *)
(***************************************************************************)
\* the callers that acquire has returned a connection to and that have not
\* released it
Holders == {a \in Acquirers : acquirers[a].pc = "holding"}

MaxConnOps == 4

\* send(): if (this.state !== ConnectionState.CONNECTED) throw
SendAccepted(st) == st = "connected"

\* setState(newState)
setState(newState) ==
  /\ state' = newState
  /\ stateChanges' = Append(stateChanges, newState)

\* a call of the public interface
ConnCall ==
  /\ connOpsLeft > 0
  /\ connOpsLeft' = connOpsLeft - 1

\* connect(): returns at once when CONNECTED or CONNECTING, else sets
\* CONNECTING and awaits establishConnection(), which creates the socket
Connect ==
  /\ ConnCall
  /\ connectPc = "idle"
  /\ IF state \in {"connected", "connecting"}
     THEN /\ connectResult' = [from |-> state, status |-> "resolved", error |-> "none"]
          /\ UNCHANGED <<state, stateChanges, ws, connectPc>>
     ELSE /\ setState("connecting")
          /\ ws' = "connecting"
          /\ connectPc' = "establishing"
          /\ connectResult' = [NotSettled EXCEPT !.from = state]
  /\ UNCHANGED <<pendingMessages, sendResult, besidesConn>>

\* the socket's open event: establishConnection resolves, connect calls
\* authenticate(), which sets AUTHENTICATING and sends signin through send()
SocketOpens ==
  /\ connectPc = "establishing"
  /\ ws = "connecting"
  /\ ws' = "open"
  /\ setState("authenticating")
  /\ IF SendAccepted(state')
     THEN /\ pendingMessages' = pendingMessages \cup {"signin"}
          /\ connectPc' = "signin"
          /\ UNCHANGED connectResult
     ELSE /\ connectPc' = "catching"
          /\ connectResult' = [connectResult EXCEPT
                                 !.error = "Authentication failed: Not connected to database"]
          /\ UNCHANGED pendingMessages
  /\ UNCHANGED <<sendResult, connOpsLeft, besidesConn>>

\* the socket's error event or the connection timeout: establishConnection
\* rejects and connect goes to its catch
SocketFails ==
  /\ connectPc = "establishing"
  /\ connectPc' = "catching"
  /\ connectResult' = [connectResult EXCEPT !.error = "WebSocket error"]
  /\ UNCHANGED <<state, stateChanges, ws, pendingMessages, sendResult, connOpsLeft, besidesConn>>

\* the catch block of connect(): ERROR, and the error is thrown on
ConnectCatches ==
  /\ connectPc = "catching"
  /\ setState("error")
  /\ connectPc' = "idle"
  /\ connectResult' = [connectResult EXCEPT !.status = "rejected"]
  /\ UNCHANGED <<ws, pendingMessages, sendResult, connOpsLeft, besidesConn>>

\* the socket's message event, handleMessage(message): the reply to a
\* pending message settles its send; authenticate goes on to use, or to
\* AUTHENTICATED and connect to CONNECTED; any other message changes nothing
MessageArrives(method, ok) ==
  /\ ws = "open"
  /\ pendingMessages' = pendingMessages \ {method}
  /\ IF method \in pendingMessages /\ connectPc = method /\ ~ok
     THEN /\ connectPc' = "catching"
          /\ connectResult' = [connectResult EXCEPT !.error = "Authentication failed: server"]
          /\ UNCHANGED <<state, stateChanges, sendResult>>
     ELSE IF method \in pendingMessages /\ connectPc = "signin" /\ method = "signin"
     THEN /\ UNCHANGED <<state, stateChanges, sendResult, connectResult>>
          /\ connectPc' = IF SendAccepted(state) THEN "use" ELSE "catching"
     ELSE IF method \in pendingMessages /\ connectPc = "use" /\ method = "use"
     THEN /\ state' = "connected"
          /\ stateChanges' = stateChanges \o <<"authenticated", "connected">>
          /\ connectPc' = "idle"
          /\ connectResult' = [connectResult EXCEPT !.status = "resolved"]
          /\ UNCHANGED sendResult
     ELSE /\ sendResult' = IF method = "query" /\ method \in pendingMessages
                           THEN (IF ok THEN "resolved" ELSE "rejected") ELSE sendResult
          /\ UNCHANGED <<state, stateChanges, connectPc, connectResult>>
  /\ UNCHANGED <<ws, connOpsLeft, besidesConn>>

\* send(message) called by a user of the connection
Send ==
  /\ ConnCall
  /\ IF SendAccepted(state)
     THEN /\ pendingMessages' = pendingMessages \cup {"query"}
          /\ sendResult' = "pending"
     ELSE /\ sendResult' = "Not connected to database"
          /\ UNCHANGED pendingMessages
  /\ UNCHANGED <<state, stateChanges, ws, connectPc, connectResult, besidesConn>>

\* disconnect(): DISCONNECTED, the socket closed, the pending messages rejected
Disconnect ==
  /\ ConnCall
  /\ setState("disconnected")
  /\ ws' = "null"
  /\ pendingMessages' = {}
  /\ sendResult' = IF sendResult = "pending" THEN "Connection closed" ELSE sendResult
  /\ UNCHANGED <<connectPc, connectResult, besidesConn>>

\* new ConnectionManager(config, logger, future)
InitConn ==
  /\ OrmIdle
  /\ CacheIdle
  /\ PoolIdle
  /\ MigIdle
  /\ state = "disconnected"
  /\ stateChanges = <<>>
  /\ ws = "null"
  /\ connectPc = "idle"
  /\ connectResult = NotSettled
  /\ pendingMessages = {}
  /\ sendResult = "none"
  /\ connOpsLeft = MaxConnOps

NextConn ==
  \/ Connect
  \/ SocketOpens
  \/ SocketFails
  \/ ConnectCatches
  \/ \E method \in {"signin", "use", "query"}, ok \in BOOLEAN : MessageArrives(method, ok)
  \/ Send
  \/ Disconnect

SpecConn == InitConn /\ [][NextConn]_vars

(***************************************************************************)
(* C29                                                                     *)
(***************************************************************************)
\* C29 (connection establishment): a connect() called in state DISCONNECTED
\* whose socket opened and whose signin and use the server did not refuse
\* has, once settled, resolved with the manager CONNECTED, the states set
\* since the call being CONNECTING, AUTHENTICATING, AUTHENTICATED, CONNECTED
\* in that order.
C29_Establishment ==
  (/\ connectResult.from = "disconnected"
   /\ connectResult.status # "none"
   /\ connectResult.error \notin {"WebSocket error", "Authentication failed: server"})
    => /\ connectResult.status = "resolved"
       /\ state = "connected"
       /\ Len(stateChanges) >= 4
       /\ SubSeq(stateChanges, Len(stateChanges) - 3, Len(stateChanges))
            = <<"connecting", "authenticating", "authenticated", "connected">>

(***************************************************************************)
(* C24                                                                     *)
(***************************************************************************)
\* the nested properties of a field entry, at any depth, with their paths
RECURSIVE NestedFields(_)
NestedFields(entry) ==
  LET under(sep, props) ==
        UNION { LET child == Entry(entry.name \o sep \o props[k].name, props[k].cfg)
                IN {child} \cup NestedFields(child)
                : k \in DOMAIN props }
  IN (IF entry.cfg.type = "object" /\ entry.cfg.hasProperties
      THEN under(".", entry.cfg.properties) ELSE {})
     \cup (IF entry.cfg.type = "array" /\ entry.cfg.arrayOf.k = "object"
           THEN under(".*.", entry.cfg.arrayOf.properties) ELSE {})

\* a definition text without its existence clause and final semicolon, in
\* one spacing and letter case
Bare(text) ==
  LET lower(pat) == [j \in DOMAIN pat |-> Lower(pat[j])]
      n == ReplaceFirst(ReplaceFirst(Normalized(text), lower(IfNotExists), <<>>),
                        lower(OverwriteClause), <<>>)
  IN IF n # <<>> /\ n[Len(n)] = ";" THEN SubSeq(n, 1, Len(n) - 1) ELSE n

\* C24 (nested leaf change detection): when planDiff has returned and every
\* introspection call resolved, then for every nested path (parent.child,
\* parent.*.child) of a desired field whose top-level field exists live: if
\* the path is missing live the plan holds its create statement, and if its
\* live definition differs from the desired one the plan holds the OVERWRITE
\* statement of that path.
C24_NestedLeafChange ==
  (PlanDiffDone /\ AllIntrospected) =>
    \A i \in DOMAIN tparts :
      LET tb == schema[i].name
          cfg == schema[i].cfg
          info == infos[i]
          sts == TableStatements(i)
      IN \A k \in DOMAIN cfg.fields :
           cfg.fields[k].name \in DOMAIN info.fields =>
             \A leaf \in NestedFields(cfg.fields[k]) :
               LET create == FieldDef(tb, leaf.name, leaf.cfg)
               IN IF leaf.name \notin DOMAIN info.fields
                  THEN \E j \in DOMAIN sts : sts[j] = create
                  ELSE Bare(info.fields[leaf.name]) # Bare(create)
                         => \E j \in DOMAIN sts : sts[j] = OverwriteVariant(create)

(***************************************************************************)
(* C25                                                                     *)
(***************************************************************************)
\* the i-th index of the schema's table came back as the descriptor it was
\* compiled from
IndexRecovered(idx) ==
  \E j \in DOMAIN LastConfig.indexes :
    LET got == LastConfig.indexes[j]
    IN /\ got.name = idx.name
       /\ got.fields = idx.fields
       /\ got.unique = idx.unique
       /\ got.hasSearch = idx.hasSearch
       /\ got.analyzer = idx.analyzer
       /\ got.hasBm25 = idx.hasBm25 /\ got.k1 = idx.k1 /\ got.b = idx.b
       /\ got.highlights = idx.highlights

\* the indexes of the introspected table whose reported text is the text
\* generateIndexSQL compiled for them
CompiledIndexes ==
  {idx \in UNION {{schema[i].cfg.indexes[k] : k \in DOMAIN schema[i].cfg.indexes}
                  : i \in SchemaIndex(LastTable)} :
     \E j \in DOMAIN outcome.info.indexes :
       outcome.info.indexes[j] = [name |-> idx.name, sql |-> generateIndexSQL(LastTable, idx)]}

\* C25 (index round-trip): for every index descriptor, composite ones
\* included, when the index text introspectTable parses is the text
\* generateIndexSQL compiled for it, the descriptor it returns has the same
\* ordered field list, uniqueness flag, analyzer, ranking parameters and
\* highlight flag.
C25_IndexRoundTrip ==
  (IntrospectTableSettled /\ outcome.status = "resolved") =>
    \A idx \in CompiledIndexes : IndexRecovered(idx)

(***************************************************************************)
(* MigrationManager (src/src/migrations/migration-manager.ts)              *)
(***************************************************************************)
\* the versions a migration can carry
Versions == {"001", "002", "003"}

\* registerMigration and migrate calls in one behaviour of SpecMig
MaxMigOps == 4

\* the dependency lists a migration can carry: up to two other versions
DependencyLists(version) ==
  {<<>>} \cup {<<d>> : d \in Versions \ {version}}
  \cup {ds \in {<<d, e>> : d, e \in Versions \ {version}} : ds[1] # ds[2]}

\* the versions in a list of migrations
VersionsOf(ms) == {ms[k].version : k \in DOMAIN ms}

\* findMigrationPath: a depth-first search along dependencies from each
\* unapplied migration, in insertion order, until one reaches the target;
\* visited and path are shared by all the searches
findMigrationPath(regs, applied, targetVersion) ==
  LET dependencies(version) ==
        IF version \in VersionsOf(regs)
        THEN regs[CHOOSE k \in DOMAIN regs : regs[k].version = version].dependencies
        ELSE <<>>
      RECURSIVE dfs(_, _), each(_, _, _)
      dfs(version, st) ==
        IF version \in st.visited THEN [st EXCEPT !.ok = FALSE]
        ELSE LET seen == [st EXCEPT !.visited = @ \cup {version}]
             IN IF version = targetVersion
                THEN [seen EXCEPT !.ok = TRUE, !.path = Append(@, version)]
                ELSE each(version, 1, seen)
      each(version, k, st) ==
        IF k > Len(dependencies(version)) THEN [st EXCEPT !.ok = FALSE]
        ELSE LET r == dfs(dependencies(version)[k], st)
             IN IF r.ok THEN [r EXCEPT !.path = Append(@, version)]
                ELSE each(version, k + 1, r)
      RECURSIVE from(_, _)
      from(k, st) ==
        IF k > Len(regs) THEN st
        ELSE IF regs[k].version \in applied THEN from(k + 1, st)
        ELSE LET r == dfs(regs[k].version, st)
             IN IF r.ok THEN r ELSE from(k + 1, r)
      path == from(1, [ok |-> FALSE, visited |-> {}, path |-> <<>>]).path
  IN [k \in DOMAIN path |-> path[Len(path) + 1 - k]]

\* createPlan: thrown when the target is not registered; toApply; conflicts
\* when a dependency is neither applied nor in toApply
createPlan(regs, applied, targetVersion) ==
  LET registered(version) == regs[CHOOSE k \in DOMAIN regs : regs[k].version = version]
      path == findMigrationPath(regs, applied, targetVersion)
      wanted == SelectSeq(path, LAMBDA version : version \notin applied
                                                  /\ version \in VersionsOf(regs))
      plan == IF targetVersion # "none"
              THEN [k \in DOMAIN wanted |-> registered(wanted[k])]
              ELSE SelectSeq(regs, LAMBDA m : m.version \notin applied)
  IN IF targetVersion # "none" /\ targetVersion \notin VersionsOf(regs)
     THEN [thrown |-> TRUE, toApply |-> <<>>, conflicts |-> FALSE]
     ELSE [ thrown |-> FALSE, toApply |-> plan,
            conflicts |-> \E k \in DOMAIN plan : \E j \in DOMAIN plan[k].dependencies :
                            /\ plan[k].dependencies[j] \notin applied
                            /\ plan[k].dependencies[j] \notin VersionsOf(plan) ]

\* one more call of the manager's caller
MigCall == migOpsLeft > 0 /\ migOpsLeft' = migOpsLeft - 1

\* applyMigration up to its first await: migration.up(queryEngine) is invoked
InvokeUp(migration, applied) ==
  ups' = Append(ups, [version |-> migration.version,
                      dependencies |-> migration.dependencies, applied |-> applied])

\* registerMigration(migration): throws when the version is registered
RegisterMigration(version, dependencies) ==
  /\ MigCall
  /\ migrations' = IF version \in VersionsOf(migrations) THEN migrations
                   ELSE Append(migrations, [version |-> version, dependencies |-> dependencies])
  /\ UNCHANGED <<appliedMigrations, toApply, mi, migPc, ups, migResult, besidesMig>>

\* migrate(targetVersion) up to its first await: the plan is made, conflicts
\* reject, and the first migration's up step is invoked
Migrate(targetVersion) ==
  /\ MigCall
  /\ migPc = "idle"
  /\ LET plan == createPlan(migrations, appliedMigrations, targetVersion)
     IN IF plan.thrown \/ plan.conflicts
        THEN /\ migResult' = "rejected"
             /\ UNCHANGED <<toApply, mi, migPc, ups>>
        ELSE /\ toApply' = plan.toApply
             /\ IF plan.toApply = <<>>
                THEN /\ migResult' = "resolved"
                     /\ UNCHANGED <<mi, migPc, ups>>
                ELSE /\ mi' = 1
                     /\ migPc' = "up"
                     /\ migResult' = "pending"
                     /\ InvokeUp(plan.toApply[1], appliedMigrations)
  /\ UNCHANGED <<migrations, appliedMigrations, besidesMig>>

\* migration.up settles: on success applyMigration sends the CREATE
\* _migrations query, on failure migrate rejects
UpSettles(ok) ==
  /\ migPc = "up"
  /\ migPc' = IF ok THEN "record" ELSE "idle"
  /\ migResult' = IF ok THEN migResult ELSE "rejected"
  /\ UNCHANGED <<migrations, appliedMigrations, toApply, mi, ups, migOpsLeft, besidesMig>>

\* the CREATE _migrations query settles: on success the version is added to
\* appliedMigrations and migrate goes on to the next migration or resolves,
\* on failure migrate rejects
RecordSettles(ok) ==
  /\ migPc = "record"
  /\ IF ok
     THEN /\ appliedMigrations' = appliedMigrations \cup {toApply[mi].version}
          /\ IF mi < Len(toApply)
             THEN /\ mi' = mi + 1
                  /\ migPc' = "up"
                  /\ InvokeUp(toApply[mi + 1], appliedMigrations')
                  /\ UNCHANGED migResult
             ELSE /\ migPc' = "idle"
                  /\ migResult' = "resolved"
                  /\ UNCHANGED <<mi, ups>>
     ELSE /\ migPc' = "idle"
          /\ migResult' = "rejected"
          /\ UNCHANGED <<appliedMigrations, mi, ups>>
  /\ UNCHANGED <<migrations, toApply, migOpsLeft, besidesMig>>

InitMig ==
  /\ OrmIdle
  /\ CacheIdle
  /\ PoolIdle
  /\ ConnIdle
  /\ migrations = <<>>
  /\ appliedMigrations = {}
  /\ toApply = <<>>
  /\ mi = 0
  /\ migPc = "idle"
  /\ ups = <<>>
  /\ migResult = "none"
  /\ migOpsLeft = MaxMigOps

NextMig ==
  \/ \E version \in Versions : \E dependencies \in DependencyLists(version) :
       RegisterMigration(version, dependencies)
  \/ \E targetVersion \in Versions \cup {"none"} : Migrate(targetVersion)
  \/ UpSettles(TRUE)
  \/ UpSettles(FALSE)
  \/ RecordSettles(TRUE)
  \/ RecordSettles(FALSE)

SpecMig == InitMig /\ [][NextMig]_vars

(***************************************************************************)
(* C30                                                                     *)
(***************************************************************************)
\* C30 (migration dependency order): whenever migrate invoked the up step
\* of a migration, every version listed in that migration's dependencies
\* was in appliedMigrations, from an earlier run or from earlier in the
\* same run.
C30_DependencyOrder ==
  \A k \in DOMAIN ups :
    \A j \in DOMAIN ups[k].dependencies : ups[k].dependencies[j] \in ups[k].applied

====
